---- MODULE Spec2Model ----
(***************************************************************************)
(* Job lifecycle store of openreview-expertise.                            *)
(*                                                                         *)
(* Spec models ExpertiseService (src/expertise/service/expertise.py): the  *)
(* working directory with one sub-directory per job, each job's            *)
(* config.json, the user index index.json, the task queue, and client      *)
(* threads that run the service's handlers step by step, every step being  *)
(* one file-system or queue operation of the handler.  The worker that     *)
(* consumes the queue (expertise.service.celery_tasks) is not part of the  *)
(* sources; it is modelled from the specification document.                *)
(***************************************************************************)
EXTENDS Integers, Sequences, FiniteSets, TLC

\* ------------------------------------------------------------------ bounds
\* Number of job ids the id generator hands out in one behaviour.
MaxJobs == 2

JobIds == 1..MaxJobs
Threads == {"t1", "t2"}
\* 'OpenReview.net' is spelled with capitals so that user_id.lower() acts.
Users == {"a", "b", "OpenReview.net"}
Submitters == {"a", "b"}
\* The first job is submitted by user a (a and b are interchangeable).
FirstSubmitters == {"a"}
\* A handler that runs from request to response in one step, changing nothing,
\* acts the same on every thread: such requests are served by these threads.
Pollers == {"t1"}

\* ------------------------------------------------------------- expertise.py
SUPERUSER_IDS == {"openreview.net"}

INITIALIZED == "Initialized"
QUEUED == "Queued"
FETCHING_DATA == "Fetching Data"
EXPERTISE_QUEUED == "Queued for Expertise"
RUN_EXPERTISE == "Running Expertise"
COMPLETED == "Completed"
ERROR == "Error"

JobStatus ==
  {INITIALIZED, QUEUED, FETCHING_DATA, EXPERTISE_QUEUED, RUN_EXPERTISE, COMPLETED, ERROR}

\* JobDescription.VALS: the table has no entry for ERROR.
JobDescription ==
  [s \in JobStatus \ {ERROR} |->
     CASE s = INITIALIZED -> "Server received config and allocated space"
       [] s = QUEUED -> "Job is waiting to start fetching OpenReview data"
       [] s = FETCHING_DATA -> "Job is currently fetching data from OpenReview"
       [] s = EXPERTISE_QUEUED ->
            "Job has assembled the data and is waiting in queue for the expertise model"
       [] s = RUN_EXPERTISE ->
            "Job is running the selected expertise model to compute scores"
       [] s = COMPLETED -> "Job is complete and the computed scores are ready"]

\* str.lower() on the user ids of the model.
Lower(u) == IF u = "OpenReview.net" THEN "openreview.net" ELSE u

IsSuperuser(u) == Lower(u) \in SUPERUSER_IDS

\* The order of the states: Initialized < Queued < Fetching Data <
\* Queued for Expertise < Running Expertise < {Completed, Error}.
Rank(s) ==
  CASE s = "" -> 0
    [] s = INITIALIZED -> 1
    [] s = QUEUED -> 2
    [] s = FETCHING_DATA -> 3
    [] s = EXPERTISE_QUEUED -> 4
    [] s = RUN_EXPERTISE -> 5
    [] s \in {COMPLETED, ERROR} -> 6

\* --------------------------------------------------------------------- state
VARIABLES
  dirs,      \* job ids whose directory exists under working_dir
  cfg,       \* job id -> content of <job_dir>/config.json
  scores,    \* job ids whose directory holds <name>.csv and metadata.json
  index,     \* index.json: [file |-> it exists, map |-> user -> list of job ids]
  queue,     \* job id -> the task message of the job that the queue holds
  nextId,    \* number of job ids handed out so far
  th,        \* thread -> the handler call it is running, and where
  owner,     \* job id -> the user whose request created the job
  returned,  \* job ids that start_expertise has returned
  deleted,   \* job ids whose deletion has returned successfully
  seen,      \* job id -> the latest state of the status order persisted for it
  db,        \* job id -> the record stored under the key job:<job id> (utils.py)
  fx,        \* the call of a function that is looked at on its own: argument, result
  lock,      \* user_index_file_lock: the thread that holds it, "" when it is free
  mem,       \* thread -> the index that its index operation has loaded
  sp         \* the Specter2Predictor: its fields, its files, the embeddings cache

vars ==
  <<dirs, cfg, scores, index, queue, nextId, th, owner, returned, deleted, seen, db,
    fx, lock, mem, sp>>

\* config.json of a job: absent, created but still empty (opened with 'w+',
\* not yet dumped), or a dumped config.
NoFile == [file |-> "none", user_id |-> "", status |-> "", description |-> ""]
EmptyFile == [file |-> "empty", user_id |-> "", status |-> "", description |-> ""]
Config(u, s, d) == [file |-> "ok", user_id |-> u, status |-> s, description |-> d]

\* The record under a key of the store: absent, or a saved JobConfig.
NoKey == [key |-> FALSE, user_id |-> "", status |-> ""]
JobConfig(u, s) == [key |-> TRUE, user_id |-> u, status |-> s]

\* No function is looked at on its own.
NoCall == [fn |-> "", arg |-> {}, out |-> [top |-> {}, config |-> {}], raises |-> ""]

\* No Specter2Predictor has been made.
NoPredictor == [fn |-> ""]

\* index.json does not exist.
NoIndex == [file |-> FALSE, map |-> <<>>]

NoMsg == [sent |-> FALSE, user_id |-> ""]
Msg(u) == [sent |-> TRUE, user_id |-> u]

Idle ==
  [pc |-> "idle", op |-> "", user |-> "", job |-> 0, dog |-> FALSE, rd |-> "",
   out |-> "", status |-> "", description |-> "", view |-> {}, req |-> {}]

Call(op, u, j, dog, pc) ==
  [Idle EXCEPT !.pc = pc, !.op = op, !.user = u, !.job = j, !.dog = dog]

\* The handler of thread t ends: it raises e, or returns (e = "ok").
Ret(t, e) == [th EXCEPT ![t].pc = "ret", ![t].out = e]

\* No handler is at its return: a return is taken before any other step.
Running == \A t \in Threads : th[t].pc # "ret"

Init ==
  /\ dirs = {}
  /\ cfg = [j \in JobIds |-> NoFile]
  /\ scores = {}
  /\ index = NoIndex
  /\ queue = [j \in JobIds |-> NoMsg]
  /\ nextId = 0
  /\ th = [t \in Threads |-> Idle]
  /\ owner = [j \in JobIds |-> ""]
  /\ returned = {}
  /\ deleted = {}
  /\ seen = [j \in JobIds |-> ""]
  /\ db = [j \in JobIds |-> NoKey]
  /\ fx = NoCall
  /\ lock = ""
  /\ mem = [t \in Threads |-> NoIndex]
  /\ sp = NoPredictor

\* The response has been sent: the thread is free for the next request.
Return(t) ==
  /\ th[t].pc = "ret"
  /\ th' = [th EXCEPT ![t] = Idle]
  /\ UNCHANGED <<dirs, cfg, scores, index, queue, nextId, owner, returned, deleted,
                 seen, db, fx, lock, mem, sp>>
\* ------------------------------------------------------------ the user index
RemoveFirst(s, x) ==
  LET i == CHOOSE k \in 1..Len(s) : s[k] = x /\ \A m \in 1..(k - 1) : s[m] # x
  IN  SubSeq(s, 1, i - 1) \o SubSeq(s, i + 1, Len(s))

InSeq(s, x) == \E k \in 1..Len(s) : s[k] = x

\* Lines 177-188: the loaded index, or the empty one when index.json does not
\* exist, with job_id appended to the list of user_id.
Added(idx, user_id, job_id) ==
  [file |-> TRUE,
   map |-> IF user_id \notin DOMAIN idx.map
             THEN [u \in DOMAIN idx.map \cup {user_id} |->
                     IF u = user_id THEN <<job_id>> ELSE idx.map[u]]
             ELSE [idx.map EXCEPT ![user_id] = Append(@, job_id)]]

\* _add_to_user_index: the index after the read-modify-write under the lock.
_add_to_user_index(user_id, job_id) == Added(index, user_id, job_id)

\* Lines 233-245: what the removal raises on the loaded index.
RemovalRaises(idx, user_id, job_id) ==
  IF ~idx.file THEN "BadRequest"
  ELSE IF user_id \notin DOMAIN idx.map THEN "UserNotFound"
  ELSE IF ~InSeq(idx.map[user_id], job_id) THEN "ValueError"
  ELSE "ok"

\* Line 243: the loaded index without the first job_id of the list of user_id.
Removed(idx, user_id, job_id) == [idx EXCEPT !.map[user_id] = RemoveFirst(@, job_id)]

\* _del_from_user_index: what it raises, "ok" when it rewrites the index.
_del_from_user_index_raises(user_id, job_id) == RemovalRaises(index, user_id, job_id)

\* A faulty _del_from_user_index: the list is changed in memory and the file
\* is not rewritten.
_del_from_user_index_unwritten(user_id, job_id) == index

_del_from_user_index(user_id, job_id) == Removed(index, user_id, job_id)

\* Some user's list in index.json names the job.
Indexed(j) == \E u \in DOMAIN index.map : InSeq(index.map[u], j)

\* --------------------------------------------------------- start_expertise
\* Lines 252-256 and _prepare_config up to os.makedirs: the request passed
\* validation, a job id was drawn (shortuuid: an id not handed out before) and
\* the job directory was created.
start_expertise(t) ==
  /\ Running /\ th[t].pc = "idle"
  /\ nextId < MaxJobs
  /\ \E u \in (IF nextId = 0 THEN FirstSubmitters ELSE Submitters) :
       /\ nextId' = nextId + 1
       /\ dirs' = dirs \cup {nextId + 1}
       /\ owner' = [owner EXCEPT ![nextId + 1] = u]
       /\ th' = [th EXCEPT ![t] = Call("start_expertise", u, nextId + 1, FALSE, "prepare_open")]
  /\ UNCHANGED <<cfg, scores, index, queue, returned, deleted, seen, db, fx, lock, mem,
                 sp>>
\* History: status s has been persisted for job j.
Seen(j, s) == IF Rank(s) > Rank(seen[j]) THEN [seen EXCEPT ![j] = s] ELSE seen

\* open(config.json, 'w+'): creates or truncates the file; raises when the
\* directory is gone.
OpenW(t, next) ==
  LET j == th[t].job IN
  IF j \in dirs
    THEN /\ cfg' = [cfg EXCEPT ![j] = EmptyFile]
         /\ th' = [th EXCEPT ![t].pc = next]
    ELSE /\ th' = Ret(t, "FileNotFoundError")
         /\ UNCHANGED cfg

\* json.dump and close: the config reaches the file the handle refers to, if
\* that file is still in the directory.
Dump(j, c) ==
  IF j \in dirs /\ cfg[j].file # "none"
    THEN /\ cfg' = [cfg EXCEPT ![j] = c]
         /\ seen' = Seen(j, c.status)
    ELSE UNCHANGED <<cfg, seen>>

\* _prepare_config line 111.
prepare_open(t) ==
  /\ Running /\ th[t].pc = "prepare_open"
  /\ OpenW(t, "prepare_dump")
  /\ UNCHANGED <<dirs, scores, index, queue, nextId, owner, returned, deleted, seen, db,
                 fx, lock, mem, sp>>
\* _prepare_config line 112: status Initialized is persisted.
prepare_dump(t) ==
  /\ Running /\ th[t].pc = "prepare_dump"
  /\ Dump(th[t].job, Config(th[t].user, INITIALIZED, JobDescription[INITIALIZED]))
  /\ th' = [th EXCEPT ![t].pc = "add_index"]
  /\ UNCHANGED <<dirs, scores, index, queue, nextId, owner, returned, deleted, db, fx,
                 lock, mem, sp>>
\* Line 264.
add_index(t) ==
  /\ Running /\ th[t].pc = "add_index"
  /\ index' = _add_to_user_index(th[t].user, th[t].job)
  /\ th' = [th EXCEPT ![t].pc = "apply_async"]
  /\ UNCHANGED <<dirs, cfg, scores, queue, nextId, owner, returned, deleted, seen, db,
                 fx, lock, mem, sp>>
\* Lines 265-269: the task is handed to the queue.
apply_async(t) ==
  /\ Running /\ th[t].pc = "apply_async"
  /\ queue' = [queue EXCEPT ![th[t].job] = Msg(th[t].user)]
  /\ th' = [th EXCEPT ![t].pc = "queued_open"]
  /\ UNCHANGED <<dirs, cfg, scores, index, nextId, owner, returned, deleted, seen, db,
                 fx, lock, mem, sp>>
\* Line 270.
queued_open(t) ==
  /\ Running /\ th[t].pc = "queued_open"
  /\ OpenW(t, "queued_dump")
  /\ UNCHANGED <<dirs, scores, index, queue, nextId, owner, returned, deleted, seen, db,
                 fx, lock, mem, sp>>
\* Lines 271-273: status Queued is persisted and the job id returned.
queued_dump(t) ==
  /\ Running /\ th[t].pc = "queued_dump"
  /\ Dump(th[t].job, Config(th[t].user, QUEUED, JobDescription[QUEUED]))
  /\ th' = Ret(t, "ok")
  /\ returned' = returned \cup {th[t].job}
  /\ UNCHANGED <<dirs, scores, index, queue, nextId, owner, deleted, db, fx, lock, mem,
                 sp>>
\* ------------------------------------------------------------------ readers
\* What reading <job_dir>/config.json raises, "ok" when it yields a config.
ReadRaises(j) ==
  IF j \notin dirs \/ cfg[j].file = "none" THEN "FileNotFoundError"
  ELSE IF cfg[j].file = "empty" THEN "JSONDecodeError"
  ELSE "ok"

\* A faulty _get_subdirs: the directories are not filtered by user.
_get_subdirs_of_everyone(user_id) == {[raises |-> "ok", subdirs |-> dirs]}

\* _get_subdirs: the possible outcomes, [raises, subdirs].  A superuser gets
\* every directory unread; for any other user every directory's config.json is
\* opened and parsed, and the first one that cannot be read ends the call.
_get_subdirs(user_id) ==
  IF IsSuperuser(user_id)
    THEN {[raises |-> "ok", subdirs |-> dirs]}
    ELSE IF \A j \in dirs : ReadRaises(j) = "ok"
           THEN {[raises |-> "ok",
                  subdirs |-> {j \in dirs : cfg[j].user_id = user_id}]}
           ELSE {[raises |-> ReadRaises(j), subdirs |-> {}] :
                   j \in {k \in dirs : ReadRaises(k) # "ok"}}

\* The response of a handler that ran from request to response in one step.
Resp(op, u, j, dog, out, status, description, view) ==
  [Call(op, u, j, dog, "ret") EXCEPT
     !.out = out, !.status = status, !.description = description, !.view = view]

\* get_expertise_status: the job is looked up among the caller's directories,
\* its config.json is read and returned filtered.
get_expertise_status(t) ==
  /\ Running /\ th[t].pc = "idle" /\ t \in Pollers
  /\ \E u \in Users, j \in JobIds : \E r \in _get_subdirs(u) :
       th' = [th EXCEPT ![t] =
                IF r.raises # "ok"
                  THEN Resp("get_expertise_status", u, j, FALSE, r.raises, "", "", {})
                ELSE IF j \notin r.subdirs
                  THEN Resp("get_expertise_status", u, j, FALSE, "NotFound", "", "", {})
                ELSE IF ReadRaises(j) # "ok"
                  THEN Resp("get_expertise_status", u, j, FALSE, ReadRaises(j), "", "", {})
                ELSE Resp("get_expertise_status", u, j, FALSE, "ok",
                          cfg[j].status, cfg[j].description, {})]
  /\ UNCHANGED <<dirs, cfg, scores, index, queue, nextId, owner, returned, deleted,
                 seen, db, fx, lock, mem, sp>>
\* get_expertise_all_status: one entry per directory of _get_subdirs.
get_expertise_all_status(t) ==
  /\ Running /\ th[t].pc = "idle" /\ t \in Pollers
  /\ \E u \in Users : \E r \in _get_subdirs(u) :
       \/ /\ r.raises # "ok"
          /\ th' = [th EXCEPT ![t] =
                      Resp("get_expertise_all_status", u, 0, FALSE, r.raises, "", "", {})]
       \/ /\ r.raises = "ok"
          /\ \E j \in r.subdirs : ReadRaises(j) # "ok"
          /\ \E j \in {k \in r.subdirs : ReadRaises(k) # "ok"} :
               th' = [th EXCEPT ![t] =
                        Resp("get_expertise_all_status", u, 0, FALSE, ReadRaises(j), "", "", {})]
       \/ /\ r.raises = "ok"
          /\ \A j \in r.subdirs : ReadRaises(j) = "ok"
          /\ th' = [th EXCEPT ![t] =
                      Resp("get_expertise_all_status", u, 0, FALSE, "ok", "", "",
                           {[job_id |-> j, status |-> cfg[j].status] : j \in r.subdirs})]
  /\ UNCHANGED <<dirs, cfg, scores, index, queue, nextId, owner, returned, deleted,
                 seen, db, fx, lock, mem, sp>>
\* A faulty status check: any status that ends a run passes.
ScoresReady_when_ended(status) == status \in {COMPLETED, ERROR}

\* Line 402: the scores are read only for this status.
ScoresReady(status) == status = COMPLETED

\* Lines 393: the caller may access the job of config c.
MayAccess(user_id, c) == user_id = c.user_id \/ IsSuperuser(user_id)

\* get_expertise_results lines 384-426: the directory, the owner, the status,
\* the score file and the metadata file are checked and read.
get_expertise_results(t) ==
  /\ Running /\ th[t].pc = "idle"
  /\ \E u \in Users, j \in JobIds, delete_on_get \in BOOLEAN :
       /\ delete_on_get \/ t \in Pollers
       /\ LET c == cfg[j]
              R(out, status, description) ==
                Resp("get_expertise_results", u, j, delete_on_get, out, status, description, {})
          IN  th' = [th EXCEPT ![t] =
                IF j \notin dirs THEN R("NotFound", "", "")
                ELSE IF ReadRaises(j) # "ok" THEN R(ReadRaises(j), "", "")
                ELSE IF ~MayAccess(u, c) THEN R("Forbidden", "", "")
                ELSE IF ~ScoresReady(c.status)
                  THEN R("InvalidState", c.status, c.description)
                ELSE IF j \notin scores THEN R("ScoresNotFound", c.status, "")
                ELSE IF delete_on_get
                  THEN [Call("get_expertise_results", u, j, delete_on_get, "del_index")
                          EXCEPT !.rd = c.user_id, !.status = c.status]
                ELSE R("ok", c.status, "")]
  /\ UNCHANGED <<dirs, cfg, scores, index, queue, nextId, owner, returned, deleted,
                 seen, db, fx, lock, mem, sp>>
\* del_expertise_job lines 449-467: the job is looked up among the caller's
\* directories and its config.json is read.
del_expertise_job(t) ==
  /\ Running /\ th[t].pc = "idle"
  /\ \E u \in Users, j \in JobIds : \E r \in _get_subdirs(u) :
       th' = [th EXCEPT ![t] =
                IF r.raises # "ok"
                  THEN Resp("del_expertise_job", u, j, FALSE, r.raises, "", "", {})
                ELSE IF j \notin r.subdirs
                  THEN Resp("del_expertise_job", u, j, FALSE, "NotFound", "", "", {})
                ELSE IF ReadRaises(j) # "ok"
                  THEN Resp("del_expertise_job", u, j, FALSE, ReadRaises(j), "", "", {})
                ELSE [Call("del_expertise_job", u, j, FALSE, "del_index")
                        EXCEPT !.rd = cfg[j].user_id]]
  /\ UNCHANGED <<dirs, cfg, scores, index, queue, nextId, owner, returned, deleted,
                 seen, db, fx, lock, mem, sp>>
\* Lines 430 and 470: the job id leaves the index, under the index lock.
del_index(t) ==
  /\ Running /\ th[t].pc = "del_index"
  /\ LET e == _del_from_user_index_raises(th[t].rd, th[t].job) IN
     IF e = "ok"
       THEN /\ index' = _del_from_user_index(th[t].rd, th[t].job)
            /\ th' = [th EXCEPT ![t].pc = "rmtree"]
       ELSE /\ th' = Ret(t, e)
            /\ UNCHANGED index
  /\ UNCHANGED <<dirs, cfg, scores, queue, nextId, owner, returned, deleted, seen, db,
                 fx, lock, mem, sp>>
\* Lines 432 and 472, shutil.rmtree, first half: the directory is scanned and
\* the files found in it are unlinked.
rmtree(t) ==
  /\ Running /\ th[t].pc = "rmtree"
  /\ LET j == th[t].job IN
     IF j \in dirs
       THEN /\ cfg' = [cfg EXCEPT ![j] = NoFile]
            /\ scores' = scores \ {j}
            /\ seen' = [seen EXCEPT ![j] = ""]
            /\ th' = [th EXCEPT ![t].pc = "rmdir"]
       ELSE /\ th' = Ret(t, "FileNotFoundError")
            /\ UNCHANGED <<cfg, scores, seen>>
  /\ UNCHANGED <<dirs, index, queue, nextId, owner, returned, deleted, db, fx, lock,
                 mem, sp>>
\* shutil.rmtree, second half: os.rmdir of the job directory, which raises if
\* a file was created in it after the scan; then the handler returns.
rmdir(t) ==
  /\ Running /\ th[t].pc = "rmdir"
  /\ LET j == th[t].job IN
     IF j \notin dirs
       THEN /\ th' = Ret(t, "FileNotFoundError")
            /\ UNCHANGED <<dirs, deleted>>
     ELSE IF cfg[j].file # "none" \/ j \in scores
       THEN /\ th' = Ret(t, "OSError")
            /\ UNCHANGED <<dirs, deleted>>
     ELSE /\ dirs' = dirs \ {j}
          /\ deleted' = deleted \cup {j}
          /\ th' = Ret(t, "ok")
  /\ UNCHANGED <<cfg, scores, index, queue, nextId, owner, returned, seen, db, fx, lock,
                 mem, sp>>
\* --------------------------------------------------------------- Job Runner
\* The worker's persist of a job record: atomic at the granularity of the
\* record, written from the config the task message carries.
Persist(j, s, d) ==
  /\ cfg' = [cfg EXCEPT ![j] = Config(queue[j].user_id, s, d)]
  /\ seen' = Seen(j, s)

\* The status the runner moves a job to from status s.
NextStatus(s) ==
  CASE s \in {INITIALIZED, QUEUED} -> FETCHING_DATA
    [] s = FETCHING_DATA -> EXPERTISE_QUEUED
    [] s = EXPERTISE_QUEUED -> RUN_EXPERTISE
    [] s = RUN_EXPERTISE -> COMPLETED

\* The queue has delivered the job's message and the job's record can be read.
Delivered(j) == queue[j].sent /\ ReadRaises(j) = "ok"

\* The runner commits its next transition, comparing the persisted status
\* first: ... -> Fetching Data -> Queued for Expertise -> Running Expertise.
run_step(j) ==
  /\ Running /\ Delivered(j)
  /\ cfg[j].status \in {INITIALIZED, QUEUED, FETCHING_DATA, EXPERTISE_QUEUED}
  /\ Persist(j, NextStatus(cfg[j].status), JobDescription[NextStatus(cfg[j].status)])
  /\ UNCHANGED <<dirs, scores, index, queue, nextId, th, owner, returned, deleted, db,
                 fx, lock, mem, sp>>
\* The scores and the metadata are written, then Completed is committed.
run_complete(j) ==
  /\ Running /\ Delivered(j)
  /\ cfg[j].status = RUN_EXPERTISE
  /\ scores' = scores \cup {j}
  /\ Persist(j, COMPLETED, JobDescription[COMPLETED])
  /\ UNCHANGED <<dirs, index, queue, nextId, th, owner, returned, deleted, db, fx, lock,
                 mem, sp>>
\* A step of the run raises: Error and the failure message are committed.
run_error(j) ==
  /\ Running /\ Delivered(j)
  /\ cfg[j].status \in {FETCHING_DATA, EXPERTISE_QUEUED, RUN_EXPERTISE}
  /\ Persist(j, ERROR, "exception")
  /\ UNCHANGED <<dirs, scores, index, queue, nextId, th, owner, returned, deleted, db,
                 fx, lock, mem, sp>>
\* The message of a job that has reached a terminal status, or is gone, is
\* acknowledged; until then the queue delivers it again (at-least-once).
run_ack(j) ==
  /\ Running /\ queue[j].sent
  /\ \/ ReadRaises(j) = "FileNotFoundError"
     \/ ReadRaises(j) = "ok" /\ cfg[j].status \in {COMPLETED, ERROR}
  /\ queue' = [queue EXCEPT ![j] = NoMsg]
  /\ UNCHANGED <<dirs, cfg, scores, index, nextId, th, owner, returned, deleted, seen,
                 db, fx, lock, mem, sp>>
Next ==
  \/ \E t \in Threads :
       \/ Return(t)
       \/ start_expertise(t)
       \/ prepare_open(t)
       \/ prepare_dump(t)
       \/ add_index(t)
       \/ apply_async(t)
       \/ queued_open(t)
       \/ queued_dump(t)
       \/ get_expertise_status(t)
       \/ get_expertise_all_status(t)
       \/ get_expertise_results(t)
       \/ del_expertise_job(t)
       \/ del_index(t)
       \/ rmtree(t)
       \/ rmdir(t)
  \/ \E j \in JobIds :
       \/ run_step(j)
       \/ run_complete(j)
       \/ run_error(j)
       \/ run_ack(j)

Spec == Init /\ [][Next]_vars

\* ------------------------------------------------------- utils.py: JobConfig
\* The callers of the record store: the users, and the superuser id as
\* SUPERUSER_IDS spells it.
Callers == Users \cup {"openreview.net"}

\* The records kept under the keys job:*, whose directory is missing.
Stale == {j \in JobIds : db[j].key /\ j \notin dirs}

\* Lines 393, 412 and 426: user_id in SUPERUSER_IDS, compared as spelled.
InSuperuserIds(user_id) == user_id \in SUPERUSER_IDS

\* remove_job: what it raises, "ok" when it deletes the key.
remove_job_raises(user_id, job_id) ==
  IF ~db[job_id].key THEN "NotFound"
  ELSE IF db[job_id].user_id # user_id /\ ~InSuperuserIds(user_id) THEN "Forbidden"
  ELSE "ok"

\* remove_job on every job id of the set D: the keys are deleted.
remove_job(D) == [j \in JobIds |-> IF j \in D THEN NoKey ELSE db[j]]

\* from_request lines 453-470: a config is built for a job id not handed out
\* before, with status Initialized; the caller then creates config.job_dir.
from_request(t) ==
  /\ Running /\ th[t].pc = "idle"
  /\ nextId < MaxJobs
  /\ \E u \in (IF nextId = 0 THEN FirstSubmitters ELSE Submitters) :
       /\ nextId' = nextId + 1
       /\ th' = [th EXCEPT ![t] = [Call("from_request", u, nextId + 1, FALSE, "makedirs")
                                     EXCEPT !.status = INITIALIZED]]
  /\ UNCHANGED <<dirs, cfg, scores, index, queue, owner, returned, deleted, seen, db,
                 fx, lock, mem, sp>>

\* The caller of from_request creates the job directory.
makedirs(t) ==
  /\ Running /\ th[t].pc = "makedirs"
  /\ dirs' = dirs \cup {th[t].job}
  /\ th' = [th EXCEPT ![t].pc = "save"]
  /\ UNCHANGED <<cfg, scores, index, queue, nextId, owner, returned, deleted, seen, db,
                 fx, lock, mem, sp>>

\* save: the config is stored under its key.
save(t) ==
  /\ Running /\ th[t].pc = "save"
  /\ db' = [db EXCEPT ![th[t].job] = JobConfig(th[t].user, th[t].status)]
  /\ th' = Ret(t, "ok")
  /\ UNCHANGED <<dirs, cfg, scores, index, queue, nextId, owner, returned, deleted,
                 seen, fx, lock, mem, sp>>

\* The directory of a job is removed by hand, behind the service's back.
remove_dir(j) ==
  /\ Running /\ j \in dirs
  /\ dirs' = dirs \ {j}
  /\ UNCHANGED <<cfg, scores, index, queue, nextId, th, owner, returned, deleted, seen,
                 db, fx, lock, mem, sp>>

\* load_job: the key, the directory and the owner are checked in this order; a
\* record without directory is handed to remove_job in the caller's name.
load_job(t) ==
  /\ Running /\ th[t].pc = "idle" /\ t \in Pollers
  /\ \E u \in Callers, j \in JobIds :
       LET R(out, status) == Resp("load_job", u, j, FALSE, out, status, "", {}) IN
       IF ~db[j].key
         THEN th' = [th EXCEPT ![t] = R("NotFound", "")] /\ UNCHANGED db
       ELSE IF j \notin dirs
         THEN IF remove_job_raises(u, j) = "ok"
                THEN th' = [th EXCEPT ![t] = R("NotFound", "")] /\ db' = remove_job({j})
                ELSE th' = [th EXCEPT ![t] = R(remove_job_raises(u, j), "")] /\ UNCHANGED db
       ELSE IF db[j].user_id # u /\ ~InSuperuserIds(u)
         THEN th' = [th EXCEPT ![t] = R("Forbidden", "")] /\ UNCHANGED db
       ELSE th' = [th EXCEPT ![t] = R("ok", db[j].status)] /\ UNCHANGED db
  /\ UNCHANGED <<dirs, cfg, scores, index, queue, nextId, owner, returned, deleted,
                 seen, fx, lock, mem, sp>>

\* load_all_jobs: the keys are scanned in the order of the store; a record
\* without directory is handed to remove_job in the caller's name, and the
\* first remove_job that raises ends the call, after the records scanned
\* before it were removed.
load_all_jobs(t) ==
  /\ Running /\ th[t].pc = "idle" /\ t \in Pollers
  /\ \E u \in Callers :
       LET R(out, view) == Resp("load_all_jobs", u, 0, FALSE, out, "", "", view)
           mine == {j \in Stale : remove_job_raises(u, j) = "ok"}
       IN  \/ /\ mine = Stale
              /\ db' = remove_job(Stale)
              /\ th' = [th EXCEPT ![t] =
                          R("ok", {[job_id |-> j, status |-> db[j].status] :
                                     j \in {k \in JobIds \ Stale :
                                              /\ db[k].key
                                              /\ db[k].user_id = u \/ InSuperuserIds(u)}})]
           \/ /\ mine # Stale
              /\ \E D \in SUBSET mine :
                   /\ db' = remove_job(D)
                   /\ th' = [th EXCEPT ![t] = R("Forbidden", {})]
  /\ UNCHANGED <<dirs, cfg, scores, index, queue, nextId, owner, returned, deleted,
                 seen, fx, lock, mem, sp>>

NextJobConfig ==
  \/ \E t \in Threads :
       \/ Return(t)
       \/ from_request(t)
       \/ makedirs(t)
       \/ save(t)
       \/ load_job(t)
       \/ load_all_jobs(t)
  \/ \E j \in JobIds : remove_dir(j)

SpecJobConfig == Init /\ [][NextJobConfig]_vars

\* ------------------------------------------------------------ _filter_config
\* A config is looked at as the set of its keys.  Every persisted config has
\* the keys that _prepare_config sets and the fields every request must have;
\* the optional fields (line 49; token is popped before the dump) may be there.
RequiredKeys ==
  {"name", "match_group", "user_id", "job_id", "job_dir", "cdate", "mdate", "status",
   "description", "dataset", "model_params"}

OptionalKeys ==
  {"baseurl", "baseurl_v2", "model", "exclusion_inv", "paper_invitation", "paper_id"}

PersistedConfigs == {RequiredKeys \cup o : o \in SUBSET OptionalKeys}

\* Line 66.
remove_fields == {"baseurl", "user_id"}

\* _filter_config: del running_config[key] raises KeyError for a missing key.
_filter_config_raises(running_config) ==
  IF remove_fields \subseteq running_config THEN "ok" ELSE "KeyError"

_filter_config(running_config) == running_config \ remove_fields

\* The job view of get_expertise_status (lines 354-364) and of each entry of
\* get_expertise_all_status (lines 301-314): its own keys, and the keys of the
\* filtered config under 'config'.
JobView(config) ==
  [top |-> {"job_id", "name", "status", "description", "cdate", "mdate", "config"},
   config |-> _filter_config(config)]

\* del_expertise_job lines 475-476: the filtered config is the view.
DeletedView(config) == [top |-> _filter_config(config), config |-> {}]

Filtered(fn, view) ==
  fx' = [fx EXCEPT !.fn = fn, !.raises = _filter_config_raises(fx.arg),
                   !.out = IF _filter_config_raises(fx.arg) = "ok"
                             THEN view ELSE NoCall.out]

status_view ==
  /\ fx.fn = ""
  /\ Filtered("get_expertise_status", JobView(fx.arg))
  /\ UNCHANGED <<dirs, cfg, scores, index, queue, nextId, th, owner, returned, deleted,
                 seen, db, lock, mem, sp>>

all_status_view ==
  /\ fx.fn = ""
  /\ Filtered("get_expertise_all_status", JobView(fx.arg))
  /\ UNCHANGED <<dirs, cfg, scores, index, queue, nextId, th, owner, returned, deleted,
                 seen, db, lock, mem, sp>>

deleted_view ==
  /\ fx.fn = ""
  /\ Filtered("del_expertise_job", DeletedView(fx.arg))
  /\ UNCHANGED <<dirs, cfg, scores, index, queue, nextId, th, owner, returned, deleted,
                 seen, db, lock, mem, sp>>

\* The persisted config that the handler has read.
InitFilter ==
  /\ dirs = {} /\ cfg = [j \in JobIds |-> NoFile] /\ scores = {}
  /\ index = [file |-> FALSE, map |-> <<>>]
  /\ queue = [j \in JobIds |-> NoMsg] /\ nextId = 0
  /\ th = [t \in Threads |-> Idle]
  /\ owner = [j \in JobIds |-> ""] /\ returned = {} /\ deleted = {}
  /\ seen = [j \in JobIds |-> ""]
  /\ db = [j \in JobIds |-> NoKey]
  /\ lock = "" /\ mem = [t \in Threads |-> NoIndex] /\ sp = NoPredictor
  /\ \E c \in PersistedConfigs : fx = [NoCall EXCEPT !.arg = c]

NextFilter == status_view \/ all_status_view \/ deleted_view

SpecFilter == InitFilter /\ [][NextFilter]_vars

\* ------------------------------------------- start_expertise, from the request
\* Lines 47 and 49: the fields a request must have and may have.
req_fields == {"name", "match_group", "user_id", "job_id"}

optional_fields ==
  {"model", "model_params", "exclusion_inv", "token", "baseurl", "baseurl_v2",
   "paper_invitation", "paper_id"}

\* The requests of the model: a complete one, one without the match group and
\* one with a field that is not expected.
Requests ==
  {req_fields, req_fields \ {"match_group"}, req_fields \cup {"unexpected"}}

\* The validation of lines 84-86 (ServerConfig.from_request) passes.
Validated(request) ==
  req_fields \subseteq request /\ request \subseteq req_fields \cup optional_fields

\* Lines 252-253: a job id is drawn at random and put into the request;
\* nothing keeps the draw from returning an id that was drawn before.
submit(t) ==
  /\ Running /\ th[t].pc = "idle"
  /\ nextId < MaxJobs
  /\ \E u \in Submitters, j \in JobIds, request \in Requests :
       th' = [th EXCEPT ![t] = [Call("start_expertise", u, j, FALSE, "validate")
                                  EXCEPT !.req = request]]
  /\ nextId' = nextId + 1
  /\ UNCHANGED <<dirs, cfg, scores, index, queue, owner, returned, deleted, seen, db,
                 fx, lock, mem, sp>>

\* A faulty _prepare_config: the job directory is created before the request
\* is validated.
validate_after_makedirs(t) ==
  /\ Running /\ th[t].pc = "validate"
  /\ dirs' = dirs \cup {th[t].job}
  /\ th' = IF Validated(th[t].req) THEN [th EXCEPT ![t].pc = "prepare_open"]
                                   ELSE Ret(t, "BadRequest")
  /\ owner' = [owner EXCEPT ![th[t].job] = th[t].user]
  /\ UNCHANGED <<cfg, scores, index, queue, nextId, returned, deleted, seen, db, fx,
                 lock, mem, sp>>

\* _prepare_config lines 84-110: the request is validated, which raises for a
\* request that is not valid; then the job directory is created unless it is
\* there already.
validate(t) ==
  /\ Running /\ th[t].pc = "validate"
  /\ IF Validated(th[t].req)
       THEN /\ dirs' = dirs \cup {th[t].job}
            /\ owner' = [owner EXCEPT ![th[t].job] = th[t].user]
            /\ th' = [th EXCEPT ![t].pc = "prepare_open"]
       ELSE /\ th' = Ret(t, "BadRequest")
            /\ UNCHANGED <<dirs, owner>>
  /\ UNCHANGED <<cfg, scores, index, queue, nextId, returned, deleted, seen, db, fx,
                 lock, mem, sp>>

\* Line 264 raises (index.json cannot be read or written): nothing in
\* start_expertise catches it.
add_index_fails(t) ==
  /\ Running /\ th[t].pc = "add_index"
  /\ th' = Ret(t, "OSError")
  /\ UNCHANGED <<dirs, cfg, scores, index, queue, nextId, owner, returned, deleted,
                 seen, db, fx, lock, mem, sp>>

\* Lines 265-269 raise (the broker cannot be reached): nothing in
\* start_expertise catches it.
apply_async_fails(t) ==
  /\ Running /\ th[t].pc = "apply_async"
  /\ th' = Ret(t, "OperationalError")
  /\ UNCHANGED <<dirs, cfg, scores, index, queue, nextId, owner, returned, deleted,
                 seen, db, fx, lock, mem, sp>>

NextSubmit ==
  \E t \in Threads :
    \/ Return(t)
    \/ submit(t)
    \/ validate(t)
    \/ prepare_open(t)
    \/ prepare_dump(t)
    \/ add_index(t)
    \/ add_index_fails(t)
    \/ apply_async(t)
    \/ apply_async_fails(t)
    \/ queued_open(t)
    \/ queued_dump(t)

SpecSubmit == Init /\ [][NextSubmit]_vars

\* ------------------------------------- the user index, operation by operation
\* A faulty lock: it is taken whether it is free or not.
LockFree_unchecked(t) == TRUE

\* Lines 176 and 232, with user_index_file_lock: the lock can be taken.
LockFree(t) == lock = ""

\* Lines 209-219: what _get_from_user_index raises on the loaded index, "ok"
\* when it returns the list of user_id.
LookupRaises(idx, user_id) ==
  IF ~idx.file THEN "BadRequest"
  ELSE IF user_id \notin DOMAIN idx.map THEN "UserNotFound"
  ELSE "ok"

\* A faulty with statement: the lock stays with the thread that leaves.
with_exit_kept(t) == t

\* The with statement of lines 176, 208 and 232 is left, by the end of its
\* block, by a return or by an exception: the lock is released.
with_exit(t) == ""

\* _add_to_user_index, _del_from_user_index or _get_from_user_index is
\* called: the registration of a new job by its submitter, the removal of a
\* job that was registered or is being registered, under the user_id of its
\* config, or the lookup of the jobs of a user.
index_call(t) ==
  /\ Running /\ th[t].pc = "idle"
  /\ \/ /\ nextId < MaxJobs
        /\ \E u \in Submitters :
             /\ th' = [th EXCEPT ![t] =
                         Call("_add_to_user_index", u, nextId + 1, FALSE, "acquire")]
             /\ owner' = [owner EXCEPT ![nextId + 1] = u]
        /\ nextId' = nextId + 1
     \/ /\ \E j \in 1..nextId :
             th' = [th EXCEPT ![t] =
                      Call("_del_from_user_index", owner[j], j, FALSE, "acquire")]
        /\ UNCHANGED <<nextId, owner>>
     \/ /\ \E u \in Submitters :
             th' = [th EXCEPT ![t] =
                      Call("_get_from_user_index", u, 0, FALSE, "acquire")]
        /\ UNCHANGED <<nextId, owner>>
  /\ UNCHANGED <<dirs, cfg, scores, index, queue, returned, deleted, seen, db, fx, lock,
                 mem, sp>>

\* The with statement is entered.
acquire(t) ==
  /\ Running /\ th[t].pc = "acquire"
  /\ LockFree(t)
  /\ lock' = t
  /\ th' = [th EXCEPT ![t].pc = "load"]
  /\ UNCHANGED <<dirs, cfg, scores, index, queue, nextId, owner, returned, deleted,
                 seen, db, fx, mem, sp>>

\* Lines 177-188 and 233-245: index.json is loaded and changed in memory; a
\* removal that raises leaves the with statement, which releases the lock.
\* Lines 209-219: the lookup returns or raises from inside the with statement.
load(t) ==
  /\ Running /\ th[t].pc = "load"
  /\ LET u == th[t].user
         j == th[t].job
         e == RemovalRaises(index, u, j)
     IN  IF th[t].op = "_add_to_user_index"
           THEN /\ mem' = [mem EXCEPT ![t] = Added(index, u, j)]
                /\ th' = [th EXCEPT ![t].pc = "dump"]
                /\ UNCHANGED lock
         ELSE IF th[t].op = "_get_from_user_index"
           THEN /\ th' = Ret(t, LookupRaises(index, u))
                /\ lock' = with_exit(t)
                /\ UNCHANGED mem
         ELSE IF e = "ok"
           THEN /\ mem' = [mem EXCEPT ![t] = Removed(index, u, j)]
                /\ th' = [th EXCEPT ![t].pc = "dump"]
                /\ UNCHANGED lock
         ELSE /\ th' = Ret(t, e)
              /\ lock' = with_exit(t)
              /\ UNCHANGED mem
  /\ UNCHANGED <<dirs, cfg, scores, index, queue, nextId, owner, returned, deleted,
                 seen, db, fx, sp>>

\* Lines 191-192 and 247-248: the index in memory is written to index.json.
dump(t) ==
  /\ Running /\ th[t].pc = "dump"
  /\ index' = mem[t]
  /\ th' = [th EXCEPT ![t].pc = "release"]
  /\ UNCHANGED <<dirs, cfg, scores, queue, nextId, owner, returned, deleted, seen, db,
                 fx, lock, mem, sp>>

\* The with statement is left and the operation returns.
release(t) ==
  /\ Running /\ th[t].pc = "release"
  /\ lock' = with_exit(t)
  /\ th' = Ret(t, "ok")
  /\ mem' = [mem EXCEPT ![t] = NoIndex]
  /\ IF th[t].op = "_add_to_user_index"
       THEN returned' = returned \cup {th[t].job} /\ UNCHANGED deleted
       ELSE deleted' = deleted \cup {th[t].job} /\ UNCHANGED returned
  /\ UNCHANGED <<dirs, cfg, scores, index, queue, nextId, owner, seen, db, fx, sp>>

NextIndex ==
  \E t \in Threads :
    \/ Return(t)
    \/ index_call(t)
    \/ acquire(t)
    \/ load(t)
    \/ dump(t)
    \/ release(t)

SpecIndex == Init /\ [][NextIndex]_vars

\* A thread that can take a step takes one in the end: the service does not
\* stop while a handler is inside an index operation.
FairSpecIndex == SpecIndex /\ WF_vars(NextIndex)

\* ------------------------------------- get_expertise_results, row by row
\* The rows of the handler's answer (lines 402-422), assembled one row of the
\* score file at a time.  The directory, the permission and delete_on_get are
\* those of get_expertise_results(t) above.

MaxRows == 3

\* A row of the score file, as csv.reader yields it: the submission, the
\* reviewer, the score as text.  One submission is the placeholder.
Rows == {"dummy", "p1"} \X {"~r1", "dummy"} \X {"0.5", "1"}

RECURSIVE SeqsUpTo(_, _)
SeqsUpTo(S, n) ==
  IF n = 0 THEN {<<>>}
  ELSE LET shorter == SeqsUpTo(S, n - 1)
       IN  shorter \cup {Append(s, x) : s \in {q \in shorter : Len(q) = n - 1}, x \in S}

ScoreFiles == SeqsUpTo(Rows, MaxRows)

\* float(row[2]) (line 420), in tenths.
float(text) == CASE text = "0.5" -> 5 [] text = "1" -> 10

\* row[0] == 'dummy' (line 414).
IsDummy_user(row) == row[2] = "dummy"
IsDummy(row) == row[1] = "dummy"

InitResults ==
  /\ dirs = {} /\ cfg = [j \in JobIds |-> NoFile] /\ scores = {}
  /\ index = NoIndex
  /\ queue = [j \in JobIds |-> NoMsg] /\ nextId = 0
  /\ th = [t \in Threads |-> Idle]
  /\ owner = [j \in JobIds |-> ""] /\ returned = {} /\ deleted = {}
  /\ seen = [j \in JobIds |-> ""]
  /\ db = [j \in JobIds |-> NoKey]
  /\ lock = "" /\ mem = [t \in Threads |-> NoIndex] /\ sp = NoPredictor
  /\ \E status \in {COMPLETED, ERROR, RUN_EXPERTISE} : \E file \in ScoreFiles :
       fx = [fn |-> "get_expertise_results", status |-> status, arg |-> file,
             at |-> 0, out |-> <<>>, raises |-> ""]

\* Lines 402-404: without status Completed there are no scores to read.
scores_not_found ==
  /\ fx.raises = "" /\ fx.at = 0
  /\ fx.status # COMPLETED
  /\ fx' = [fx EXCEPT !.raises = "OpenReviewException"]
  /\ UNCHANGED <<dirs, cfg, scores, index, queue, nextId, th, owner, returned, deleted,
                 seen, db, lock, mem, sp>>
\* Lines 407-411: the score file is opened, ret_list is empty.
open_scores ==
  /\ fx.raises = "" /\ fx.at = 0
  /\ fx.status = COMPLETED
  /\ fx' = [fx EXCEPT !.at = 1, !.out = <<>>]
  /\ UNCHANGED <<dirs, cfg, scores, index, queue, nextId, th, owner, returned, deleted,
                 seen, db, lock, mem, sp>>
\* Lines 414-415: a row of the placeholder submission is passed over.
skip_row ==
  /\ fx.raises = "" /\ fx.at \in 1..Len(fx.arg)
  /\ IsDummy(fx.arg[fx.at])
  /\ fx' = [fx EXCEPT !.at = @ + 1]
  /\ UNCHANGED <<dirs, cfg, scores, index, queue, nextId, th, owner, returned, deleted,
                 seen, db, lock, mem, sp>>
\* Lines 417-421: any other row is appended to ret_list.
append_row ==
  /\ fx.raises = "" /\ fx.at \in 1..Len(fx.arg)
  /\ ~IsDummy(fx.arg[fx.at])
  /\ LET row == fx.arg[fx.at]
     IN  fx' = [fx EXCEPT !.at = @ + 1,
                          !.out = Append(@, [submission |-> row[1], user |-> row[2],
                                             score |-> float(row[3])])]
  /\ UNCHANGED <<dirs, cfg, scores, index, queue, nextId, th, owner, returned, deleted,
                 seen, db, lock, mem, sp>>
\* Lines 422, 434: the file is at its end, ret_list is the answer's 'results'.
return_results ==
  /\ fx.raises = "" /\ fx.at = Len(fx.arg) + 1
  /\ fx' = [fx EXCEPT !.raises = "ok"]
  /\ UNCHANGED <<dirs, cfg, scores, index, queue, nextId, th, owner, returned, deleted,
                 seen, db, lock, mem, sp>>

NextResults ==
  \/ scores_not_found
  \/ open_scores
  \/ skip_row
  \/ append_row
  \/ return_results

SpecResults == InitResults /\ [][NextResults]_vars

\* ------------------------------------- specter.py: sparse_scores, step by step
\* Specter2Predictor.sparse_scores (lines 313-338) on the preliminary scores
\* that all_scores has left: one entry (note_id, profile_id, score) for every
\* reviewer and every submission, reviewer by reviewer (lines 269-286).  Ids
\* are numbers, compared as the strings of the ids are.

MaxNotes == 2
MaxProfiles == 3
MaxScore == 2
MaxK == 2

NoteIds == 1..MaxNotes
ProfileIds == 1..MaxProfiles
Scores == 1..MaxScore

\* The sequences without repetition over S: the orders in which a dict can
\* hold the keys of a subset of S.
RECURSIVE Orders(_)
Orders(S) == {<<>>} \cup UNION {{<<x>> \o s : s \in Orders(S \ {x})} : x \in S}

\* Lines 269-286: for every reviewer, for every submission j, one entry.
RECURSIVE Grid(_, _, _)
Grid(n, reviewers, score) ==
  IF reviewers = <<>> THEN <<>>
  ELSE [j \in 1..n |-> <<j, Head(reviewers), score[<<j, Head(reviewers)>>]>>]
       \o Grid(n, Tail(reviewers), score)

\* key=lambda x: (x[0], x[2]) and key=lambda x: (x[1], x[2]) (lines 318, 326, 331).
SortKey_by_profile(id_index, entry) == <<entry[2], entry[3]>>
SortKey(id_index, entry) == <<entry[id_index], entry[3]>>
KeyLess(a, b) == a[1] < b[1] \/ (a[1] = b[1] /\ a[2] < b[2])

\* list.sort(key=..., reverse=True): descending, entries of equal keys stay in
\* the order they had.
RECURSIVE SortDesc(_, _)
SortDesc(list, id_index) ==
  IF list = <<>> THEN <<>>
  ELSE LET n == Len(list)
           rest == SortDesc(SubSeq(list, 1, n - 1), id_index)
           x == list[n]
           before == SelectSeq(rest, LAMBDA y : ~KeyLess(SortKey(id_index, y), SortKey(id_index, x)))
           after == SelectSeq(rest, LAMBDA y : KeyLess(SortKey(id_index, y), SortKey(id_index, x)))
       IN  before \o <<x>> \o after

\* sorted(list(all_scores), key=..., reverse=True) (line 331): the list of a
\* set comes in any order, so entries of equal keys come in any order.
RECURSIVE SortedDesc(_)
SortedDesc(S) ==
  IF S = {} THEN {<<>>}
  ELSE UNION {{<<x>> \o s : s \in SortedDesc(S \ {x})} :
                x \in {y \in S : \A z \in S : ~KeyLess(SortKey(1, y), SortKey(1, z))}}

Predictor(scored, list, k, path) ==
  [fn |-> "sparse_scores", scored |-> scored, preliminary_scores |-> list,
   given |-> list, sparse_value |-> k, scores_path |-> path, pc |-> "call",
   id_index |-> 0, counter |-> 0, current_id |-> 0, at |-> 0,
   all_scores |-> {}, emitted |-> {}, emitted_by_note |-> {}, out |-> <<>>,
   written |-> FALSE, raises |-> "", calls |-> 1, first |-> <<>>]

InitSparse ==
  /\ dirs = {} /\ cfg = [j \in JobIds |-> NoFile] /\ scores = {}
  /\ index = NoIndex
  /\ queue = [j \in JobIds |-> NoMsg] /\ nextId = 0
  /\ th = [t \in Threads |-> Idle]
  /\ owner = [j \in JobIds |-> ""] /\ returned = {} /\ deleted = {}
  /\ seen = [j \in JobIds |-> ""]
  /\ db = [j \in JobIds |-> NoKey]
  /\ fx = NoCall /\ lock = "" /\ mem = [t \in Threads |-> NoIndex]
  /\ \E k \in 1..MaxK : \E path \in BOOLEAN :
       \/ sp = Predictor(FALSE, <<>>, k, path)
       \/ \E n \in 0..MaxNotes : \E reviewers \in Orders(ProfileIds) :
            \E score \in [(1..n) \X {reviewers[i] : i \in 1..Len(reviewers)} -> Scores] :
              sp = Predictor(TRUE, Grid(n, reviewers, score), k, path)

\* self.preliminary_scores is None (line 314).
NotReady_unchecked(p) == FALSE
NotReady(p) == ~p.scored
\* Lines 314-315: all_scores has not run.
sparse_scores_raises ==
  /\ sp.fn = "sparse_scores" /\ sp.pc = "call" /\ NotReady(sp)
  /\ sp' = [sp EXCEPT !.pc = "done", !.raises = "RuntimeError"]
  /\ UNCHANGED <<dirs, cfg, scores, index, queue, nextId, th, owner, returned, deleted,
                 seen, db, fx, lock, mem>>
\* Lines 318-322: the scores are sorted by note id and score, in place.
sort_by_note ==
  /\ sp.fn = "sparse_scores" /\ sp.pc = "call" /\ ~NotReady(sp)
  /\ sp' = [sp EXCEPT !.preliminary_scores = SortDesc(@, 1), !.all_scores = {},
                      !.id_index = 1, !.pc = "helper"]
  /\ UNCHANGED <<dirs, cfg, scores, index, queue, nextId, th, owner, returned, deleted,
                 seen, db, fx, lock, mem>>
\* Lines 296-298: the pass begins with the id of the first entry; on an empty
\* list preliminary_scores[0] raises.
_sparse_scores_helper ==
  /\ sp.fn = "sparse_scores" /\ sp.pc = "helper"
  /\ IF sp.preliminary_scores = <<>>
     THEN sp' = [sp EXCEPT !.pc = "done", !.raises = "IndexError"]
     ELSE sp' = [sp EXCEPT !.counter = 0, !.emitted = {}, !.at = 1, !.pc = "loop",
                           !.current_id = sp.preliminary_scores[1][sp.id_index]]
  /\ UNCHANGED <<dirs, cfg, scores, index, queue, nextId, th, owner, returned, deleted,
                 seen, db, fx, lock, mem>>
\* counter < self.sparse_value (line 304).
BelowK_one_short(counter, k) == counter < k - 1
BelowK(counter, k) == counter < k
\* Lines 304-305, 310: the counter is below sparse_value, the entry is added.
helper_add ==
  /\ sp.fn = "sparse_scores" /\ sp.pc = "loop" /\ sp.at <= Len(sp.preliminary_scores)
  /\ BelowK(sp.counter, sp.sparse_value)
  /\ LET entry == sp.preliminary_scores[sp.at]
     IN  sp' = [sp EXCEPT !.all_scores = @ \cup {entry}, !.emitted = @ \cup {entry},
                          !.counter = @ + 1, !.at = @ + 1]
  /\ UNCHANGED <<dirs, cfg, scores, index, queue, nextId, th, owner, returned, deleted,
                 seen, db, fx, lock, mem>>
\* Lines 306-310: the counter is not below sparse_value and the id is not
\* current_id: the counter starts again, the entry is added.
helper_new_id ==
  /\ sp.fn = "sparse_scores" /\ sp.pc = "loop" /\ sp.at <= Len(sp.preliminary_scores)
  /\ ~BelowK(sp.counter, sp.sparse_value)
  /\ sp.preliminary_scores[sp.at][sp.id_index] # sp.current_id
  /\ LET entry == sp.preliminary_scores[sp.at]
     IN  sp' = [sp EXCEPT !.all_scores = @ \cup {entry}, !.emitted = @ \cup {entry},
                          !.current_id = entry[sp.id_index],
                          !.counter = 1, !.at = @ + 1]
  /\ UNCHANGED <<dirs, cfg, scores, index, queue, nextId, th, owner, returned, deleted,
                 seen, db, fx, lock, mem>>
\* Line 310 alone: the entry is passed over.
helper_skip ==
  /\ sp.fn = "sparse_scores" /\ sp.pc = "loop" /\ sp.at <= Len(sp.preliminary_scores)
  /\ ~BelowK(sp.counter, sp.sparse_value)
  /\ sp.preliminary_scores[sp.at][sp.id_index] = sp.current_id
  /\ sp' = [sp EXCEPT !.counter = @ + 1, !.at = @ + 1]
  /\ UNCHANGED <<dirs, cfg, scores, index, queue, nextId, th, owner, returned, deleted,
                 seen, db, fx, lock, mem>>
\* Lines 311, 326-328: after the pass by note id the scores are sorted by
\* profile id and score and the second pass is made.
sort_by_profile ==
  /\ sp.fn = "sparse_scores" /\ sp.pc = "loop" /\ sp.at > Len(sp.preliminary_scores)
  /\ sp.id_index = 1
  /\ sp' = [sp EXCEPT !.preliminary_scores = SortDesc(@, 2), !.id_index = 2,
                      !.emitted_by_note = sp.emitted, !.pc = "helper"]
  /\ UNCHANGED <<dirs, cfg, scores, index, queue, nextId, th, owner, returned, deleted,
                 seen, db, fx, lock, mem>>
\* Lines 331-338: the set is sorted, written to scores_path when one is
\* given, and returned.
final_sort ==
  /\ sp.fn = "sparse_scores" /\ sp.pc = "loop" /\ sp.at > Len(sp.preliminary_scores)
  /\ sp.id_index = 2
  /\ \E sorted \in SortedDesc(sp.all_scores) :
       sp' = [sp EXCEPT !.out = sorted, !.written = sp.scores_path, !.pc = "done",
                        !.raises = "ok"]
  /\ UNCHANGED <<dirs, cfg, scores, index, queue, nextId, th, owner, returned, deleted,
                 seen, db, fx, lock, mem>>

\* sparse_scores is called once more on the predictor, with the same
\* sparse_value: preliminary_scores is as the call before has left it.
sparse_scores_again ==
  /\ sp.fn = "sparse_scores" /\ sp.pc = "done" /\ sp.raises = "ok" /\ sp.calls = 1
  /\ sp' = [sp EXCEPT !.pc = "call", !.calls = 2, !.first = sp.out,
                      !.given = sp.preliminary_scores, !.out = <<>>,
                      !.written = FALSE, !.raises = ""]
  /\ UNCHANGED <<dirs, cfg, scores, index, queue, nextId, th, owner, returned, deleted,
                 seen, db, fx, lock, mem>>

NextSparse ==
  \/ sparse_scores_again
  \/ sparse_scores_raises
  \/ sort_by_note
  \/ _sparse_scores_helper
  \/ helper_add
  \/ helper_new_id
  \/ helper_skip
  \/ sort_by_profile
  \/ final_sort

SpecSparse == InitSparse /\ [][NextSparse]_vars

\* ------------------------------------------ specter.py: all_scores, step by step
\* Specter2Predictor.all_scores (lines 195-293) with use_redis = False: the
\* embeddings of the publications and of the submissions are read from the
\* two files, one line per paper, by load_emb_file.

MaxPubs == 2
MaxSubs == 2
MaxReviewers == 2

\* An embedding of a line: BadEmb stands for the empty list (no embedding
\* could be computed), the others for three vectors of 768 numbers.
BadEmb == 0
Vectors == {1, 2, 3}
\* torch.sum(a * b) of two rows after each was divided by its norm (lines 214,
\* 258), in hundredths.  The row of an empty embedding is [0] * 768 (line 207).
InnerProduct(a, b) ==
  CASE a = BadEmb \/ b = BadEmb -> 0
    [] a = b -> 100
    [] {a, b} = {1, 2} -> 90
    [] {a, b} = {1, 3} -> 20
    [] {a, b} = {2, 3} -> 50

\* The ids of a set in ascending order.
RECURSIVE Ascending(_)
Ascending(S) ==
  IF S = {} THEN <<>>
  ELSE LET least == CHOOSE x \in S : \A y \in S : x <= y
       IN  <<least>> \o Ascending(S \ {least})

\* Lines 198-212: id_list and bad_id_set of a file of lines <<paper_id, embedding>>.
id_list(file) == [i \in 1..Len(file) |-> file[i][1]]
bad_id_set(file) == {file[i][1] : i \in {j \in 1..Len(file) : file[j][2] = BadEmb}}
\* Lines 246-248.
paper_id2train_idx(file, paper_id) == CHOOSE i \in 1..Len(file) : file[i][1] = paper_id

\* A score: the sum of n numbers, standing for their quotient.  The mean of
\* no number is nan.
NaN == [sum |-> 0, n |-> 0]
RECURSIVE SeqSum(_)
SeqSum(s) == IF s = <<>> THEN 0 ELSE Head(s) + SeqSum(Tail(s))
RECURSIVE SeqMax(_)
SeqMax(s) == IF Len(s) = 1 THEN s[1] ELSE IF s[1] >= SeqMax(Tail(s)) THEN s[1] ELSE SeqMax(Tail(s))
\* train_paper_aff_j.mean(dim=1) and .max(dim=1)[0] (lines 279, 281), for one row.
mean(row) == IF row = <<>> THEN NaN ELSE [sum |-> SeqSum(row), n |-> Len(row)]
max(row) == [sum |-> SeqMax(row), n |-> 1]

\* paper_id not in train_bad_id_set (line 274).
Usable_any(bad, paper_id) == TRUE
Usable(bad, paper_id) == paper_id \notin bad

\* Lines 272-276: the columns of the reviewer's publications that are not in
\* train_bad_id_set, for the submission of row j.
train_paper_aff_j(p, train_note_id_list, j) ==
  LET usable == SelectSeq(train_note_id_list, LAMBDA paper_id : Usable(bad_id_set(p.publications), paper_id))
  IN  [c \in 1..Len(usable) |->
         InnerProduct(p.submissions[j][2],
                      p.publications[paper_id2train_idx(p.publications, usable[c])][2])]

Aggregator(mode, by_author, publications, submissions, path) ==
  [fn |-> "all_scores", average_score |-> (mode = "average"), max_score |-> (mode = "max"),
   pub_author_ids_to_note_id |-> by_author, publications |-> publications,
   submissions |-> submissions, scores_path |-> path,
   scored |-> FALSE, preliminary_scores |-> <<>>, csv_scores |-> <<>>, written |-> <<>>,
   train_bad_id_set |-> {}, test_bad_id_set |-> {},
   pc |-> "call", at |-> 0, calls |-> 0, before |-> <<>>, raises |-> ""]

\* The reviewers' lists of publications: every reviewer has at least one
\* (set_archives_dataset, lines 115-119).
PubLists == {Ascending(S) : S \in (SUBSET (1..MaxPubs)) \ {{}}}
Indexes == UNION {[1..r -> PubLists] : r \in 1..MaxReviewers}
PubsOf(by_author) ==
  UNION {{by_author[r][i] : i \in 1..Len(by_author[r])} : r \in 1..Len(by_author)}

InitScores ==
  /\ dirs = {} /\ cfg = [j \in JobIds |-> NoFile] /\ scores = {}
  /\ index = NoIndex
  /\ queue = [j \in JobIds |-> NoMsg] /\ nextId = 0
  /\ th = [t \in Threads |-> Idle]
  /\ owner = [j \in JobIds |-> ""] /\ returned = {} /\ deleted = {}
  /\ seen = [j \in JobIds |-> ""]
  /\ db = [j \in JobIds |-> NoKey]
  /\ fx = NoCall /\ lock = "" /\ mem = [t \in Threads |-> NoIndex]
  /\ \E mode \in {"max", "average"} : \E path \in BOOLEAN : \E idx \in Indexes :
       \E n \in 0..MaxSubs :
         \E pub_emb \in [PubsOf(idx) -> Vectors \cup {BadEmb}] :
           \E sub_emb \in [1..n -> Vectors \cup {BadEmb}] :
             sp = Aggregator(mode, idx,
                             [i \in 1..Cardinality(PubsOf(idx)) |->
                                <<Ascending(PubsOf(idx))[i], pub_emb[Ascending(PubsOf(idx))[i]]>>],
                             [j \in 1..n |-> <<j, sub_emb[j]>>], path)

\* self.preliminary_scores = [] (line 268): the entries of an earlier call go.
NewList_appended(earlier) == earlier
NewList(earlier) == <<>>

\* Lines 238-268: the two files are loaded, the similarities computed, the
\* lists of scores emptied.  A file without a line gives a tensor without a
\* second dimension, and the norm over it raises (line 214).
load_emb_file ==
  /\ sp.fn = "all_scores" /\ sp.pc = "call" /\ sp.calls < 2
  /\ IF sp.submissions = <<>>
     THEN sp' = [sp EXCEPT !.pc = "done", !.raises = "IndexError", !.calls = @ + 1,
                           !.train_bad_id_set = bad_id_set(sp.publications)]
     ELSE sp' = [sp EXCEPT !.train_bad_id_set = bad_id_set(sp.publications),
                           !.test_bad_id_set = bad_id_set(sp.submissions),
                           !.scored = TRUE, !.preliminary_scores = NewList(@),
                           !.csv_scores = <<>>, !.at = 1, !.pc = "reviewers",
                           !.calls = @ + 1, !.raises = ""]
  /\ UNCHANGED <<dirs, cfg, scores, index, queue, nextId, th, owner, returned, deleted,
                 seen, db, fx, lock, mem>>
\* Lines 269-286: the scores of the next reviewer, one entry for every submission.
score_reviewer ==
  /\ sp.fn = "all_scores" /\ sp.pc = "reviewers"
  /\ sp.at <= Len(sp.pub_author_ids_to_note_id)
  /\ LET train_note_id_list == sp.pub_author_ids_to_note_id[sp.at]
         entries == [j \in 1..Len(sp.submissions) |->
                       <<id_list(sp.submissions)[j], sp.at,
                         IF sp.average_score
                         THEN mean(train_paper_aff_j(sp, train_note_id_list, j))
                         ELSE max(train_paper_aff_j(sp, train_note_id_list, j))>>]
     IN  /\ sp.average_score \/ train_paper_aff_j(sp, train_note_id_list, 1) # <<>>
         /\ IF Len(train_note_id_list) = 0
            THEN sp' = [sp EXCEPT !.at = @ + 1]
            ELSE sp' = [sp EXCEPT !.at = @ + 1,
                                  !.preliminary_scores = @ \o entries,
                                  !.csv_scores = @ \o entries]
  /\ UNCHANGED <<dirs, cfg, scores, index, queue, nextId, th, owner, returned, deleted,
                 seen, db, fx, lock, mem>>
\* Line 281: the maximum over no column raises.
max_raises ==
  /\ sp.fn = "all_scores" /\ sp.pc = "reviewers"
  /\ sp.at <= Len(sp.pub_author_ids_to_note_id)
  /\ ~sp.average_score
  /\ train_paper_aff_j(sp, sp.pub_author_ids_to_note_id[sp.at], 1) = <<>>
  /\ sp' = [sp EXCEPT !.pc = "done", !.raises = "IndexError"]
  /\ UNCHANGED <<dirs, cfg, scores, index, queue, nextId, th, owner, returned, deleted,
                 seen, db, fx, lock, mem>>
\* Lines 288-293: the lines are written to scores_path when one is given, the
\* preliminary scores are returned.
write_scores ==
  /\ sp.fn = "all_scores" /\ sp.pc = "reviewers"
  /\ sp.at > Len(sp.pub_author_ids_to_note_id)
  /\ sp' = [sp EXCEPT !.pc = "done", !.raises = "ok",
                      !.written = IF sp.scores_path THEN sp.csv_scores ELSE @]
  /\ UNCHANGED <<dirs, cfg, scores, index, queue, nextId, th, owner, returned, deleted,
                 seen, db, fx, lock, mem>>
\* all_scores is called once more, on the same files and the same index.
all_scores_again ==
  /\ sp.fn = "all_scores" /\ sp.pc = "done" /\ sp.calls < 2
  /\ sp' = [sp EXCEPT !.pc = "call", !.before = sp.preliminary_scores]
  /\ UNCHANGED <<dirs, cfg, scores, index, queue, nextId, th, owner, returned, deleted,
                 seen, db, fx, lock, mem>>

NextScores ==
  \/ load_emb_file
  \/ score_reviewer
  \/ max_raises
  \/ write_scores
  \/ all_scores_again

SpecScores == InitScores /\ [][NextScores]_vars

\* --------------------------------------- specter.py: the embeddings in redis
\* Specter2Predictor with use_redis = True, one job after another on one
\* redis: set_archives_dataset (lines 107-143), the embedding of what it put
\* into specter_reviewer_paper_data.json, load_from_redis (lines 218-236).
\* The ids of the publications are strings of any length: the id of a
\* publication may be the beginning of the id of another, and key + "*"
\* (line 342) matches every key that begins with the id.

MaxDocs == 2
MaxMdate == 2
MaxRuns == 3

Docs == 1..MaxDocs
Mdates == 1..MaxMdate
\* What the Embedder may give for a paper.
EmbedderOutputs == {"v1", "v2"}
\* No embedding of the paper reaches redis.
NotStored == "none"

\* publication['id'] of publication d, as its characters: "a", "ab", "abc", ...
\* with the characters 1, 2, 3, ...
Id(d) == [i \in 1..d |-> i]
\* publication['id'] + "_" + str(pub_mdate) (line 123): the pair, and the
\* string it stands for, with 0 for "_".
CacheKey(id, mdate) == <<id, mdate>>
KeyString(key) == Id(key[1]) \o <<0, key[2]>>
\* The glob match of string s against prefix + "*".
Match(s, prefix) == Len(prefix) <= Len(s) /\ SubSeq(s, 1, Len(prefix)) = prefix
\* self.redis.exists(key), tensorget(key): redis is a set of [key, tensor].
Exists(redis, key) == \E e \in redis : e.key = key
TensorGet(redis, key) == (CHOOSE e \in redis : e.key = key).tensor
TensorSet(redis, key, tensor) == {e \in redis : e.key # key} \cup {[key |-> key, tensor |-> tensor]}

\* not self.redis.exists(pub_cache_key) (line 125).
Uncached(redis, key) == ~Exists(redis, key)

\* Lines 340-343: every key that begins with the id is deleted.
_remove_keys_from_cache_kept(redis, id) == redis
_remove_keys_from_cache(redis, id) ==
  {e \in redis : ~Match(KeyString(e.key), Id(id))}

\* Lines 115-137, for the publications of all profiles one after another:
\* the cache key of every publication, the papers to embed, the keys removed.
RECURSIVE Archive(_, _)
Archive(state, publications) ==
  IF publications = <<>> THEN state
  ELSE LET id == Head(publications)[1]
           key == CacheKey(id, Head(publications)[2])
           keyed == [state EXCEPT !.pub_note_id_to_cache_key =
                       [d \in DOMAIN @ \cup {id} |-> IF d = id THEN key ELSE @[d]]]
       IN  Archive(IF Uncached(state.redis, key)
                   THEN [keyed EXCEPT !.output_dict = @ \cup {id},
                                      !.redis = _remove_keys_from_cache(@, id)]
                   ELSE keyed,
                   Tail(publications))

\* A dataset: every publication with its mdate, once for each of its authors.
Datasets ==
  {d \in [Docs -> [mdate : Mdates, authors : 0..2]] : \E id \in Docs : d[id].authors > 0}
RECURSIVE PublicationsOf(_, _)
PublicationsOf(dataset, ids) ==
  IF ids = {} THEN <<>>
  ELSE LET id == CHOOSE x \in ids : \A y \in ids : x <= y
       IN  [a \in 1..dataset[id].authors |-> <<id, dataset[id].mdate>>]
           \o PublicationsOf(dataset, ids \ {id})

NoJob ==
  [fn |-> "redis", redis |-> {}, pc |-> "idle", runs |-> 0,
   pub_note_id_to_cache_key |-> <<>>, output_dict |-> {}, start |-> {},
   invoked |-> [key \in Docs \X Mdates |-> 0], used |-> <<>>, bad_id_set |-> {},
   id_list |-> <<>>, emb_list |-> <<>>, raises |-> ""]

InitCache ==
  /\ dirs = {} /\ cfg = [j \in JobIds |-> NoFile] /\ scores = {}
  /\ index = NoIndex
  /\ queue = [j \in JobIds |-> NoMsg] /\ nextId = 0
  /\ th = [t \in Threads |-> Idle]
  /\ owner = [j \in JobIds |-> ""] /\ returned = {} /\ deleted = {}
  /\ seen = [j \in JobIds |-> ""]
  /\ db = [j \in JobIds |-> NoKey]
  /\ fx = NoCall /\ lock = "" /\ mem = [t \in Threads |-> NoIndex]
  /\ sp = NoJob

\* Lines 107-143 for the dataset of a new job.
set_archives_dataset ==
  /\ sp.fn = "redis" /\ sp.pc = "idle" /\ sp.runs < MaxRuns
  /\ \E dataset \in Datasets :
       sp' = [Archive([sp EXCEPT !.pub_note_id_to_cache_key = <<>>, !.output_dict = {},
                                 !.start = sp.redis,
                                 !.invoked = [key \in Docs \X Mdates |-> 0],
                                 !.used = <<>>, !.bad_id_set = {}, !.id_list = <<>>,
                                 !.emb_list = <<>>, !.raises = ""],
                      PublicationsOf(dataset, Docs))
              EXCEPT !.pc = "embed", !.runs = @ + 1]
  /\ UNCHANGED <<dirs, cfg, scores, index, queue, nextId, th, owner, returned, deleted,
                 seen, db, fx, lock, mem>>
\* The papers of specter_reviewer_paper_data.json are embedded (lines 185-190)
\* and the embeddings are stored under the cache keys of their papers; the
\* embedding of a paper may fail to reach redis.
RECURSIVE StoreAll(_, _, _)
StoreAll(redis, keys, tensor) ==
  IF keys = {} THEN redis
  ELSE LET key == CHOOSE k \in keys : TRUE
       IN  StoreAll(TensorSet(redis, key, tensor[key]), keys \ {key}, tensor)
embed_publications ==
  /\ sp.fn = "redis" /\ sp.pc = "embed"
  /\ LET keys == {sp.pub_note_id_to_cache_key[id] : id \in sp.output_dict}
     IN  \E tensor \in [keys -> EmbedderOutputs \cup {NotStored}] :
           sp' = [sp EXCEPT !.redis = StoreAll(@, {key \in keys : tensor[key] # NotStored},
                                               tensor),
                            !.invoked = [key \in DOMAIN @ |->
                                           IF key \in keys THEN @[key] + 1 ELSE @[key]],
                            !.pc = "scores"]
  /\ UNCHANGED <<dirs, cfg, scores, index, queue, nextId, th, owner, returned, deleted,
                 seen, db, fx, lock, mem>>
\* Lines 233-234 and 257-258: the rows of emb_list become emb_tensor, whose
\* norm is taken along dim 1, and the product of a submission with the rows
\* is assigned to a row of p2p_aff that has a column for every id of id_list.
TensorRaises(rows, columns) ==
  IF rows = 0 THEN "IndexError"
  ELSE IF rows = columns \/ rows = 1 THEN "ok"
  ELSE "RuntimeError"

\* Lines 218-236: the embedding of every publication is read from redis; a
\* publication whose key is not there goes into bad_id_set and adds no row to
\* emb_list, while id_list holds every publication (line 220).  emb_list is
\* kept as the ids whose rows it holds.
load_from_redis ==
  /\ sp.fn = "redis" /\ sp.pc = "scores"
  /\ LET ids == DOMAIN sp.pub_note_id_to_cache_key
         found == {id \in ids : Exists(sp.redis, sp.pub_note_id_to_cache_key[id])}
         keys == Ascending(ids)
     IN  sp' = [sp EXCEPT !.used = [id \in found |->
                                      TensorGet(sp.redis, sp.pub_note_id_to_cache_key[id])],
                          !.bad_id_set = ids \ found,
                          !.id_list = [i \in 1..Len(keys) |->
                                         <<keys[i], sp.pub_note_id_to_cache_key[keys[i]]>>],
                          !.emb_list = SelectSeq(keys, LAMBDA id : id \in found),
                          !.raises = TensorRaises(Cardinality(found), Len(keys)),
                          !.pc = "idle"]
  /\ UNCHANGED <<dirs, cfg, scores, index, queue, nextId, th, owner, returned, deleted,
                 seen, db, fx, lock, mem>>

NextCache ==
  \/ set_archives_dataset
  \/ embed_publications
  \/ load_from_redis

SpecCache == InitCache /\ [][NextCache]_vars

\* ----------------------------------- the reduction mode: request to predictor
\* A flag is True, False or None, as strings: starting_config gives None for a
\* model parameter it does not set (utils.py lines 526-527).
MaxParams == 2
Flags == {"True", "False", "None"}

\* The keys a request's model object is drawn from: scoreComputation, one of
\* the other allowed_model_params (lines 513-520), and a key that is not allowed.
Params == {"scoreComputation", "sparseValue", "foo"}
allowed_model_params == {"scoreComputation", "sparseValue"}

\* The values of a key: scoreComputation may be anything, None included.
ParamValues(param) ==
  IF param = "scoreComputation" THEN {"max", "avg", "sum", "None"} ELSE {"v"}

\* api_request.model: keys in the order of the dict, no key twice.
Models ==
  {m \in UNION {[1..n -> {<<p, v>> : p \in Params, v \in {"max", "avg", "sum", "None", "v"}}]
                : n \in 0..MaxParams} :
     /\ \A i \in 1..Len(m) : m[i][2] \in ParamValues(m[i][1])
     /\ \A i, j \in 1..Len(m) : m[i][1] = m[j][1] => i = j}

\* config.model_params, as far as the reduction mode goes, and the exception.
ModelParams(average_score, max_score, raises) ==
  [average_score |-> average_score, max_score |-> max_score, raises |-> raises]

\* The loop of lines 533-554 from parameter i on.
RECURSIVE api_model_params(_, _, _)
api_model_params(api_model, i, model_params) ==
  IF i > Len(api_model) THEN model_params
  ELSE LET param == api_model[i][1]
           compute_with == api_model[i][2]
       IN  IF param = "scoreComputation"
             THEN IF compute_with = "max"
                    THEN api_model_params(api_model, i + 1,
                                          ModelParams("False", "True", "ok"))
                  ELSE IF compute_with = "avg"
                    THEN api_model_params(api_model, i + 1,
                                          ModelParams("True", "False", "ok"))
                  ELSE [model_params EXCEPT !.raises = "BadRequest"]
           ELSE IF param \notin allowed_model_params
             THEN [model_params EXCEPT !.raises = "BadRequest"]
           ELSE api_model_params(api_model, i + 1, model_params)

\* max_score ^ average_score of line 52: ^ is not defined on None.
Xor_either(max_score, average_score) ==
  IF "None" \in {max_score, average_score} THEN "TypeError"
  ELSE IF "True" \in {max_score, average_score} THEN "ok" ELSE "AssertionError"

Xor(max_score, average_score) ==
  IF "None" \in {max_score, average_score} THEN "TypeError"
  ELSE IF max_score # average_score THEN "ok" ELSE "AssertionError"

\* A request has come in: the model parameters of the default config, the
\* model object of the request.
InitMode ==
  /\ dirs = {} /\ cfg = [j \in JobIds |-> NoFile] /\ scores = {}
  /\ index = [file |-> FALSE, map |-> <<>>]
  /\ queue = [j \in JobIds |-> NoMsg] /\ nextId = 0
  /\ th = [t \in Threads |-> Idle]
  /\ owner = [j \in JobIds |-> ""] /\ returned = {} /\ deleted = {}
  /\ seen = [j \in JobIds |-> ""]
  /\ db = [j \in JobIds |-> NoKey]
  /\ fx = NoCall /\ lock = "" /\ mem = [t \in Threads |-> NoIndex]
  /\ \E average_score, max_score \in Flags : \E api_model \in Models :
       sp = [fn |-> "request", api_model |-> api_model,
             starting_config |-> ModelParams(average_score, max_score, "ok"),
             model_params |-> ModelParams("None", "None", ""),
             average_score |-> "None", max_score |-> "None", raises |-> "ok",
             mode |-> ""]

\* JobConfig.from_request, lines 521-554: the defaults of starting_config,
\* overridden by the model object of the request.
from_request_model_params ==
  /\ sp.fn = "request"
  /\ sp' = [sp EXCEPT !.fn = "from_request",
                      !.model_params =
                        api_model_params(sp.api_model, 1, sp.starting_config)]
  /\ UNCHANGED <<dirs, cfg, scores, index, queue, nextId, th, owner, returned, deleted,
                 seen, db, fx, lock, mem>>

\* Specter2Predictor(average_score, max_score), lines 42-52: the fields are
\* set, then the assertion is made.  The caller may pass any flags.
__init__ ==
  /\ sp.fn \in {"request", "from_request"}
  /\ \E average_score, max_score \in Flags :
       sp' = [sp EXCEPT !.fn = "__init__", !.average_score = average_score,
                        !.max_score = max_score,
                        !.raises = Xor(max_score, average_score)]
  /\ UNCHANGED <<dirs, cfg, scores, index, queue, nextId, th, owner, returned, deleted,
                 seen, db, fx, lock, mem>>

\* all_scores on the predictor that was made, lines 278-281: the mean if
\* average_score, else the maximum if max_score, else nothing is assigned.
reduce ==
  /\ sp.fn = "__init__" /\ sp.raises = "ok"
  /\ sp' = [sp EXCEPT !.fn = "all_scores",
                      !.mode = IF sp.average_score = "True" THEN "average"
                               ELSE IF sp.max_score = "True" THEN "max"
                               ELSE "UnboundLocalError"]
  /\ UNCHANGED <<dirs, cfg, scores, index, queue, nextId, th, owner, returned, deleted,
                 seen, db, fx, lock, mem>>

NextMode == from_request_model_params \/ __init__ \/ reduce

SpecMode == InitMode /\ [][NextMode]_vars

\* ------------------------------------------------------------------- claims
\* The job exists and no deletion of it has begun to remove it.
Deleting(j) == \E t \in Threads : th[t].job = j /\ th[t].pc \in {"rmtree", "rmdir"}

Live(j) == j \in dirs /\ j \notin deleted /\ ~Deleting(j)

\* C1: the persisted status of a job never moves to an earlier state of the
\* order Initialized < Queued < Fetching Data < Queued for Expertise <
\* Running Expertise < {Completed, Error}: whenever a status can be read, it is
\* not before a status persisted for the job earlier.
C1_StatusNeverGoesBack ==
  \A j \in JobIds : cfg[j].file = "ok" => Rank(cfg[j].status) >= Rank(seen[j])

\* C2: once the persisted status of a job is Completed or Error it does not
\* change until the job is deleted.
C2_TerminalStatusIsFinal ==
  \A j \in JobIds :
    (seen[j] \in {COMPLETED, ERROR} /\ cfg[j].file = "ok") => cfg[j].status = seen[j]

\* C3: once start_expertise has returned job id j, and as long as j is not
\* being deleted, get_expertise_status called by the owner of j returns a view
\* with a status of the state machine.
C3_SubmittedJobIsVisible ==
  \A t \in Threads :
    (/\ th[t].pc = "ret" /\ th[t].op = "get_expertise_status"
     /\ th[t].job \in returned /\ th[t].user = owner[th[t].job] /\ Live(th[t].job))
    => (th[t].out = "ok" /\ th[t].status \in JobStatus)
C5_DeletionIsOneStep ==
  \A t \in Threads :
    th[t].pc \in {"rmtree", "rmdir"} => (Indexed(th[t].job) <=> th[t].job \in dirs)

\* The first step of get_expertise_results of thread t is answering: the
\* response is not that of the deletion that follows the read of the scores.
Answering(t) ==
  th[t].pc = "ret" /\ th[t].op = "get_expertise_results" /\ th[t].rd = ""

\* C6: get_expertise_results returns scores only if the status it read is
\* Completed; for a job whose config the caller may access and whose status is
\* any other, it fails with InvalidState carrying the persisted status and
\* description; and the step that fails so leaves the directories, the
\* configs, the score files and the index unchanged, delete_on_get or not.
C6_ScoresOnlyWhenCompleted ==
  /\ [](\A t \in Threads :
          /\ (th[t].pc = "ret" /\ th[t].op = "get_expertise_results" /\ th[t].out = "ok")
             => th[t].status = COMPLETED
          /\ (/\ Answering(t) /\ cfg[th[t].job].file = "ok"
              /\ MayAccess(th[t].user, cfg[th[t].job])
              /\ cfg[th[t].job].status # COMPLETED)
             => /\ th[t].out = "InvalidState"
                /\ th[t].status = cfg[th[t].job].status
                /\ th[t].description = cfg[th[t].job].description
          /\ (Answering(t) /\ th[t].out = "InvalidState")
             => /\ cfg[th[t].job].file = "ok"
                /\ cfg[th[t].job].status # COMPLETED)
  /\ [][\A t \in Threads :
          (th'[t].pc = "ret" /\ th'[t].out = "InvalidState" /\ th[t].pc # "ret")
          => UNCHANGED <<dirs, cfg, scores, index>>]_vars

\* get_expertise_results with delete_on_get has failed with InvalidState for a
\* job that is running, and the job is still there and indexed.
C6_Witness ==
  \E t \in Threads :
    /\ Answering(t) /\ th[t].dog /\ th[t].out = "InvalidState"
    /\ th[t].status = RUN_EXPERTISE
    /\ th[t].job \in dirs /\ Indexed(th[t].job)

\* C7: for every job that has a directory and a persisted status, and every
\* caller who is neither the user that submitted it nor a superuser,
\* get_expertise_results fails with Forbidden and del_expertise_job fails.
C7_OthersAreRefused ==
  \A t \in Threads :
    (/\ th[t].pc = "ret" /\ th[t].rd = ""
     /\ th[t].job \in dirs /\ seen[th[t].job] # ""
     /\ th[t].user # owner[th[t].job] /\ ~IsSuperuser(th[t].user))
    => /\ th[t].op = "get_expertise_results" => th[t].out = "Forbidden"
       /\ th[t].op = "del_expertise_job" => th[t].out # "ok"

\* C8: load_job for a job that exists and is owned by another user fails with
\* NotFound when the caller is not a superuser, and returns the job to a
\* superuser.
C8_OthersJobIsNotFound ==
  \A t \in Threads :
    (/\ th[t].pc = "ret" /\ th[t].op = "load_job"
     /\ db[th[t].job].key /\ th[t].job \in dirs
     /\ db[th[t].job].user_id # th[t].user)
    => /\ ~IsSuperuser(th[t].user) => th[t].out = "NotFound"
       /\ InSuperuserIds(th[t].user) => th[t].out = "ok"

\* C9: load_job for a job whose directory no longer exists fails with NotFound
\* and leaves no record of the job behind.
C9_StaleRecordIsPurged ==
  \A t \in Threads :
    (th[t].pc = "ret" /\ th[t].op = "load_job" /\ th[t].job \notin dirs)
    => (th[t].out = "NotFound" /\ ~db[th[t].job].key)

C11_StaleRecordsAreReconciled ==
  \A t \in Threads :
    (th[t].pc = "ret" /\ th[t].op = "load_all_jobs")
    => /\ th[t].out = "ok"
       /\ Stale = {}
       /\ {e.job_id : e \in th[t].view} =
            {j \in dirs : db[j].key /\ (db[j].user_id = th[t].user
                                         \/ InSuperuserIds(th[t].user))}

\* The fields that are for the server only.
InternalKeys == {"user_id", "baseurl", "baseurl_v2"}

\* C12: the job view that get_expertise_status, get_expertise_all_status and
\* del_expertise_job return for a persisted config holds neither the user id
\* nor a base URL field (baseurl, baseurl_v2), at top level or under 'config'.
C12_ViewsHaveNoInternalFields ==
  (fx.fn \in {"get_expertise_status", "get_expertise_all_status", "del_expertise_job"}
   /\ fx.raises = "ok")
  => (fx.out.top \cup fx.out.config) \cap InternalKeys = {}

\* Thread t runs start_expertise on a request that is not valid.
Rejecting(t) == th[t].op = "start_expertise" /\ ~Validated(th[t].req)

C14_FailedSubmitLeavesNothingBehind ==
  \A t \in Threads :
    (/\ th[t].pc = "ret" /\ th[t].op = "start_expertise"
     /\ th[t].out \in {"OSError", "OperationalError"})
    => /\ (Indexed(th[t].job) \/ th[t].job \in dirs) => queue[th[t].job].sent
       /\ queue[th[t].job].sent => Indexed(th[t].job)

\* C15: the job id that start_expertise draws is not the id of a job whose
\* directory exists, and the job id that a successful start_expertise returns
\* is not one that an earlier start_expertise returned.
C15_JobIdIsFresh ==
  [][\A t \in Threads :
       /\ (th[t].pc = "idle" /\ th'[t].op = "start_expertise")
          => th'[t].job \notin dirs
       /\ (th[t].pc = "queued_dump" /\ th'[t].pc = "ret" /\ th'[t].out = "ok")
          => th[t].job \notin returned]_vars

\* The job ids that index.json lists for user u, in order.
Listed(u) == IF u \in DOMAIN index.map THEN index.map[u] ELSE <<>>

\* C16: whenever the index lock is free, index.json lists for every user
\* exactly the jobs whose registration has returned and whose removal has not,
\* each once: no registration and no removal is lost, however the operations
\* of the threads interleave.
C16_NoIndexUpdateIsLost ==
  lock = "" =>
    \A u \in Submitters :
      /\ {Listed(u)[k] : k \in 1..Len(Listed(u))} =
           {j \in returned \ deleted : owner[j] = u}
      /\ \A k \in 1..Len(Listed(u)), m \in 1..Len(Listed(u)) :
           Listed(u)[k] = Listed(u)[m] => k = m

\* Both jobs were registered and one of them removed again, and a removal is
\* waiting for the lock that the other thread has just released.
C16_Witness ==
  \E t \in Threads, r \in Threads :
    /\ lock = "" /\ returned = JobIds /\ deleted # {} /\ deleted # JobIds
    /\ th[t].pc = "ret" /\ th[t].op = "_del_from_user_index" /\ th[t].out = "ok"
    /\ th[r].pc = "acquire"

\* C17: get_expertise_status and get_expertise_all_status never come upon a
\* config.json that a persist has written in part only: the read yields the
\* record from before the write or the one after it, so parsing never fails.
C17_ReadsSeeWholeRecords ==
  \A t \in Threads :
    (th[t].pc = "ret"
     /\ th[t].op \in {"get_expertise_status", "get_expertise_all_status"})
    => th[t].out # "JSONDecodeError"

\* C18: when a run raises, the runner persists status Error with a failure
\* description on the job's record, and this is told to no handler call: the
\* call of start_expertise has returned the job id or goes on to return it;
\* and a job for which Error was persisted never becomes Completed.
C18_FailedJobStaysFailed ==
  /\ [](\A j \in JobIds :
          (seen[j] = ERROR /\ cfg[j].file = "ok") => cfg[j].status # COMPLETED)
  /\ [][\A j \in JobIds :
          (cfg[j].status # ERROR /\ cfg'[j].status = ERROR)
          => /\ cfg'[j].description \notin
                  {""} \cup {JobDescription[s] : s \in DOMAIN JobDescription}
             /\ th' = th]_vars

\* C19: every job that start_expertise has accepted reaches Completed or
\* Error in the end, when the queue and the runner are scheduled fairly.
\* Stated on the states where nothing is left to happen for the job: its
\* message is acknowledged and no call is at work on it; the status that such a
\* state shows is the one the job keeps for ever, so it is Completed or Error.
C19_AcceptedJobsEndTerminal ==
  \A j \in JobIds :
    (/\ j \in returned /\ j \in dirs /\ cfg[j].file = "ok"
     /\ ~queue[j].sent
     /\ \A t \in Threads : th[t].pc = "idle" \/ th[t].job # j)
    => cfg[j].status \in {COMPLETED, ERROR}

\* C20: for a Completed job the rows that get_expertise_results returns are
\* the rows of the score file whose submission is not 'dummy', each with its
\* submission, its user and its score, in the order of the file: no row of
\* the placeholder is returned, no other row is left out, none is added.
C20_ResultsAreTheNonDummyRows ==
  (fx.fn = "get_expertise_results" /\ fx.raises = "ok")
  => LET kept == SelectSeq(fx.arg, LAMBDA row : row[1] # "dummy")
     IN  /\ fx.status = COMPLETED
         /\ Len(fx.out) = Len(kept)
         /\ \A i \in 1..Len(kept) :
              fx.out[i] = [submission |-> kept[i][1], user |-> kept[i][2],
                           score |-> float(kept[i][3])]
\* A file with a placeholder row ahead of two unlike rows that are returned,
\* one of them of a reviewer named like the placeholder.
C20_Witness ==
  /\ fx.fn = "get_expertise_results" /\ fx.raises = "ok"
  /\ Len(fx.arg) = 3 /\ Len(fx.out) = 2
  /\ fx.arg[1][1] = "dummy"
  /\ fx.out[1] # fx.out[2]
  /\ \E i \in 1..2 : fx.out[i].user = "dummy"

\* The entries of a sequence.
Range(list) == {list[i] : i \in 1..Len(list)}
\* Entry a is ahead of entry b in the list of their note (id_index 1) or of
\* their profile (id_index 2): its score is greater, or the scores are equal
\* and the pass comes upon a first.  The pass by note comes upon equal scores
\* in the order in which all_scores left them; the pass by profile in the
\* order in which the sort by note left them, the greater note id first.
Ahead(id_index, a, b) ==
  /\ a[id_index] = b[id_index] /\ a # b
  /\ \/ a[3] > b[3]
     \/ /\ a[3] = b[3]
        /\ IF id_index = 1
           THEN \E i, j \in 1..Len(sp.given) : i < j /\ sp.given[i] = a /\ sp.given[j] = b
           ELSE a[1] > b[1]
TopK(id_index) ==
  {b \in Range(sp.given) :
     Cardinality({a \in Range(sp.given) : Ahead(id_index, a, b)}) < sp.sparse_value}

\* C21: whatever the scores and whatever k >= 1, the result of sparse_scores
\* holds, for every note and for every profile, the k entries of greatest
\* score of that note or profile (all of them when there are fewer), equal
\* scores being taken in the order in which the pass comes upon them.
C21_TopKIsKept ==
  (sp.fn = "sparse_scores" /\ sp.raises = "ok")
  => (TopK(1) \cup TopK(2)) \subseteq Range(sp.out)
\* Some entry is left out, and a tie at the cut of a note was decided: an
\* entry left out has the score of an entry of its note that is kept.
C21_Witness ==
  /\ sp.fn = "sparse_scores" /\ sp.raises = "ok"
  /\ \E b \in Range(sp.given) \ Range(sp.out) :
       \E a \in TopK(1) : a[1] = b[1] /\ a[3] = b[3]

\* C22: sparse_scores called when all_scores has computed nothing yet fails
\* with the error of a call made too early (RuntimeError, "Call all_scores
\* before calling sparse_scores") and writes nothing to scores_path.
C22_NotReadyWritesNothing ==
  (sp.fn = "sparse_scores" /\ ~sp.scored)
  => /\ ~sp.written /\ sp.out = <<>> /\ sp.all_scores = {}
     /\ sp.pc \in {"call", "done"}
     /\ sp.pc = "done" => sp.raises = "RuntimeError"
\* The call has failed although it was given a path to write to.
C22_Witness ==
  /\ sp.fn = "sparse_scores" /\ ~sp.scored /\ sp.scores_path
  /\ sp.pc = "done" /\ sp.raises = "RuntimeError"

\* The position of the entry at index i within the run of its id, from 0.
RunPos(i) ==
  Cardinality({j \in 1..(i - 1) :
                 sp.preliminary_scores[j][sp.id_index] = sp.preliminary_scores[i][sp.id_index]})
\* C29: in each pass of sparse_scores the counter starts again at every place
\* where the id changes, so that after an entry it is the number of entries of
\* that entry's run met so far; and the pass has emitted, of the entries met,
\* exactly those whose position in the run of their id is below k (the first
\* entry of every run among them): no entry at a position >= k is emitted.
C29_CounterStartsAgainAtEveryId ==
  (sp.fn = "sparse_scores" /\ sp.pc = "loop")
  => /\ sp.at > 1 => sp.counter = RunPos(sp.at - 1) + 1
     /\ sp.emitted = {sp.preliminary_scores[i] : i \in {j \in 1..(sp.at - 1) : RunPos(j) < sp.sparse_value}}

\* C30: the result of sparse_scores is the union of what the two passes
\* emitted, each triple (note_id, profile_id, score) once, in descending order
\* of (note_id, score).
C30_ResultIsTheSortedUnion ==
  (sp.fn = "sparse_scores" /\ sp.raises = "ok")
  => /\ Range(sp.out) = sp.emitted_by_note \cup sp.emitted
     /\ Len(sp.out) = Cardinality(sp.emitted_by_note \cup sp.emitted)
     /\ \A i, j \in 1..Len(sp.out) :
          i < j => \/ sp.out[i][1] > sp.out[j][1]
                   \/ sp.out[i][1] = sp.out[j][1] /\ sp.out[i][3] >= sp.out[j][3]
\* Both passes emitted one and the same entry, each emitted an entry the
\* other did not, and the result has entries of two notes.
C30_Witness ==
  /\ sp.fn = "sparse_scores" /\ sp.raises = "ok"
  /\ sp.emitted_by_note \cap sp.emitted # {}
  /\ sp.emitted_by_note \ sp.emitted # {}
  /\ sp.emitted \ sp.emitted_by_note # {}
  /\ \E i, j \in 1..Len(sp.out) : sp.out[i][1] # sp.out[j][1]

\* The embedding that a file holds for a paper id.
EmbOf(file, paper_id) == file[CHOOSE i \in 1..Len(file) : file[i][1] = paper_id][2]
\* The publications of reviewer r for which an embedding could be computed.
UsablePubs(r) ==
  {paper_id \in {sp.pub_author_ids_to_note_id[r][i] : i \in 1..Len(sp.pub_author_ids_to_note_id[r])} :
     EmbOf(sp.publications, paper_id) # BadEmb}
\* The similarity of a submission and a publication.
Similarity(note_id, paper_id) ==
  InnerProduct(EmbOf(sp.submissions, note_id), EmbOf(sp.publications, paper_id))
RECURSIVE SetSum(_, _)
SetSum(note_id, S) ==
  IF S = {} THEN 0
  ELSE LET paper_id == CHOOSE x \in S : TRUE
       IN  Similarity(note_id, paper_id) + SetSum(note_id, S \ {paper_id})
\* The scores that preliminary_scores holds for a submission and a reviewer.
ScoresOf(note_id, r) ==
  {sp.preliminary_scores[i][3] :
     i \in {k \in 1..Len(sp.preliminary_scores) :
              sp.preliminary_scores[k][1] = note_id /\ sp.preliminary_scores[k][2] = r}}

\* C23: when all_scores returns, every submission has, with every reviewer
\* who has a usable publication, one score: under max_score the greatest of
\* the similarities of the submission and that reviewer's usable publications,
\* under average_score their sum divided by their number (0.9 and 0.2 give
\* 0.9 and 0.55).
C23_ScoreIsMaxOrMean ==
  (sp.fn = "all_scores" /\ sp.pc = "done" /\ sp.raises = "ok")
  => \A j \in 1..Len(sp.submissions) : \A r \in 1..Len(sp.pub_author_ids_to_note_id) :
       UsablePubs(r) # {}
       => ScoresOf(sp.submissions[j][1], r) =
            {IF sp.max_score
             THEN [sum |-> CHOOSE m \in {Similarity(sp.submissions[j][1], p) : p \in UsablePubs(r)} :
                             \A p \in UsablePubs(r) : Similarity(sp.submissions[j][1], p) <= m,
                   n |-> 1]
             ELSE [sum |-> SetSum(sp.submissions[j][1], UsablePubs(r)),
                   n |-> Cardinality(UsablePubs(r))]}
\* Under average_score a reviewer with publications of similarity 0.9 and 0.2
\* to the first submission has the score 1.1 / 2 for it.
C23_Witness ==
  /\ sp.fn = "all_scores" /\ sp.pc = "done" /\ sp.raises = "ok" /\ sp.average_score
  /\ \E r \in 1..Len(sp.pub_author_ids_to_note_id) :
       /\ {Similarity(1, p) : p \in UsablePubs(r)} = {90, 20}
       /\ ScoresOf(1, r) = {[sum |-> 110, n |-> 2]}

\* C24: a reviewer all of whose publications are without embedding gets no
\* entry from all_scores, for any submission, and all_scores does not fail at
\* that reviewer.
C24_NoScoreWithoutUsablePublication ==
  sp.fn = "all_scores"
  => \A r \in 1..Len(sp.pub_author_ids_to_note_id) :
       UsablePubs(r) = {}
       => /\ \A i \in 1..Len(sp.preliminary_scores) : sp.preliminary_scores[i][2] # r
          /\ ~(sp.pc = "done" /\ sp.raises = "IndexError" /\ sp.at = r)

\* C25: a submission or a publication whose line holds no embedding is put
\* into the bad-id set of its file when the file is loaded, and no entry of
\* the scores is for such a submission; a publication of that kind takes no
\* part in a score (C23).
C25_NoEntryForBadDocuments ==
  (sp.fn = "all_scores" /\ sp.pc = "reviewers")
  => /\ sp.train_bad_id_set =
          {sp.publications[i][1] : i \in {k \in 1..Len(sp.publications) : sp.publications[k][2] = BadEmb}}
     /\ sp.test_bad_id_set =
          {sp.submissions[i][1] : i \in {k \in 1..Len(sp.submissions) : sp.submissions[k][2] = BadEmb}}
     /\ \A i \in 1..Len(sp.preliminary_scores) :
          sp.preliminary_scores[i][1] \notin sp.test_bad_id_set

\* C26: a second call of all_scores on the same files and the same index of
\* publications leaves the same set of entries as the first, and no more
\* entries than the first: those of the first call are not kept.
C26_SecondRunGivesTheSameScores ==
  (sp.fn = "all_scores" /\ sp.calls = 2 /\ sp.pc = "done")
  => /\ Range(sp.preliminary_scores) = Range(sp.before)
     /\ Len(sp.preliminary_scores) = Len(sp.before)
\* The second call has returned scores for two reviewers.
C26_Witness ==
  /\ sp.fn = "all_scores" /\ sp.calls = 2 /\ sp.pc = "done" /\ sp.raises = "ok"
  /\ \E i, j \in 1..Len(sp.preliminary_scores) :
       sp.preliminary_scores[i][2] # sp.preliminary_scores[j][2]

\* C27: at the end of a job, a publication whose key (id, mdate) was in redis
\* when the job began has not been given to the Embedder and the tensor used
\* for it is the one that was stored; a publication whose key was not there
\* (its mdate has changed, or it is new) has been embedded once, and redis
\* holds no key of its id with another mdate.
C27_CachedIsUsedChangedIsRecomputed ==
  (sp.fn = "redis" /\ sp.pc = "idle" /\ sp.runs > 0)
  => \A id \in DOMAIN sp.pub_note_id_to_cache_key :
       LET key == sp.pub_note_id_to_cache_key[id]
       IN  /\ Exists(sp.start, key)
              => /\ sp.invoked[key] = 0
                 /\ id \in DOMAIN sp.used /\ sp.used[id] = TensorGet(sp.start, key)
           /\ ~Exists(sp.start, key)
              => /\ sp.invoked[key] = 1
                 /\ \A e \in sp.redis : e.key[1] = id => e.key = key

ScoreComputation(api_model) ==
  IF \E i \in 1..Len(api_model) : api_model[i][1] = "scoreComputation"
    THEN api_model[CHOOSE i \in 1..Len(api_model) :
                     api_model[i][1] = "scoreComputation"][2]
    ELSE ""

AllAllowed(api_model) ==
  \A i \in 1..Len(api_model) : api_model[i][1] \in allowed_model_params

\* C31: exactly one of the reduction modes is in effect in every scoring run.
\* The constructor of the predictor succeeds exactly when one of max_score and
\* average_score is True and the other is False; all_scores then reduces with
\* the mode whose flag is True.  from_request with scoreComputation 'max' sets
\* max_score True and average_score False, with 'avg' the other way round
\* (unless another key of the model object is rejected), and any other value
\* of scoreComputation is rejected with BadRequest.
C31_ExactlyOneReductionMode ==
  /\ sp.fn \in {"__init__", "all_scores"} =>
       (sp.raises = "ok" <=>
          {sp.max_score, sp.average_score} = {"True", "False"})
  /\ sp.fn = "all_scores" =>
       /\ sp.mode \in {"average", "max"}
       /\ sp.mode = "average" <=> sp.average_score = "True"
       /\ sp.mode = "max" <=> sp.max_score = "True"
  /\ sp.fn = "from_request" =>
       LET compute_with == ScoreComputation(sp.api_model)
           p == sp.model_params
       IN  /\ compute_with = "max" /\ AllAllowed(sp.api_model) =>
                p = ModelParams("False", "True", "ok")
           /\ compute_with = "avg" /\ AllAllowed(sp.api_model) =>
                p = ModelParams("True", "False", "ok")
           /\ compute_with \in {"max", "avg"} /\ p.raises = "ok" =>
                {p.max_score, p.average_score} = {"True", "False"}
           /\ compute_with \notin {"", "max", "avg"} => p.raises = "BadRequest"

\* A request with scoreComputation 'avg' and defaults that set both flags has
\* been turned into model parameters, and a predictor made with average_score
\* alone has reduced with the mean.
C31_Witness ==
  /\ sp.fn = "all_scores" /\ sp.mode = "average"
  /\ ScoreComputation(sp.api_model) = "avg" /\ Len(sp.api_model) = 2
  /\ sp.starting_config = ModelParams("True", "True", "ok")
  /\ sp.model_params = ModelParams("True", "False", "ok")

\* C32: the table of descriptions is total over the job statuses: every status
\* a job has persisted, Error included, is a key of JobDescription, so the
\* lookup of its description does not fail.
C32_EveryStatusHasADescription ==
  \A j \in JobIds :
    cfg[j].file = "ok" => cfg[j].status \in DOMAIN JobDescription

\* C33: when set_archives_dataset has evicted the stale entries of the
\* publications it found uncached, every entry that has gone from redis is an
\* entry of one of those publications: the entries of every other id, the ids
\* that begin with an evicted id included, are still there.
C33_EvictionRemovesOnlyThatId ==
  (sp.fn = "redis" /\ sp.pc = "embed")
  => \A e \in sp.start \ sp.redis : e.key[1] \in sp.output_dict

\* The handler call c deletes its job: del_expertise_job, or
\* get_expertise_results with delete_on_get.
IsDeletion(c) ==
  c.op = "del_expertise_job" \/ (c.op = "get_expertise_results" /\ c.dog)

\* C34: of two deletions of one job that run at the same time, both having
\* found the job and read its config, the one that does not succeed fails
\* with NotFound: a deletion that ends while the other is still at work ends
\* with success or with NotFound, and never both end with success.
C34_OneDeletionSucceedsOtherNotFound ==
  \A t, o \in Threads :
    ( /\ t # o
      /\ IsDeletion(th[t]) /\ IsDeletion(th[o]) /\ th[t].job = th[o].job
      /\ th[t].pc = "ret" /\ th[t].rd # ""
      /\ th[o].pc \in {"del_index", "rmtree", "rmdir"} )
    => th[t].out \in {"ok", "NotFound"}

\* C35: a status read is not disturbed by the job of another user: when every
\* existing job of the caller (no superuser) has a readable config.json,
\* get_expertise_status and get_expertise_all_status end with a view or, for
\* a job that is not the caller's, with NotFound, whatever state the
\* directories of other users are in.
C35_OtherUsersJobsDoNotDisturb ==
  \A t \in Threads :
    ( /\ th[t].pc = "ret"
      /\ th[t].op \in {"get_expertise_status", "get_expertise_all_status"}
      /\ ~IsSuperuser(th[t].user)
      /\ \A j \in dirs : owner[j] = th[t].user => ReadRaises(j) = "ok" )
    => th[t].out \in {"ok", "NotFound"}

\* C36: the index lock is held by a thread only while that thread is inside
\* the with statement of an index operation: after every exit, the raising
\* ones included, the lock is free again.  So a caller that waits for the
\* lock does not wait for ever on a holder that has left: whenever a thread
\* is at the with statement the lock becomes free.
C36_IndexLockIsAlwaysReleased ==
  /\ [](lock # "" => th[lock].pc \in {"load", "dump", "release"})
  /\ [](\A t \in Threads : th[t].pc \in {"idle", "acquire", "ret"} => lock # t)
  /\ \A t \in Threads : (th[t].pc = "acquire") ~> (lock = "")

\* A removal has raised ValueError inside the with statement while the other
\* thread was waiting for the lock, and the lock is free.
C36_Witness ==
  /\ lock = ""
  /\ \E t, o \in Threads :
       /\ th[t].pc = "ret" /\ th[o].pc = "acquire"
       /\ th[t].op = "_del_from_user_index" /\ th[t].out = "ValueError"

\* C37: sparse_scores called a second time on the same computed scores, with
\* the same sparse_value, returns what the first call returned: the two lists
\* hold the same entries, tied scores or not.
C37_SecondCallReturnsTheSame ==
  (sp.fn = "sparse_scores" /\ sp.calls = 2 /\ sp.pc = "done" /\ sp.raises = "ok")
  => Range(sp.out) = Range(sp.first)

C39_ColumnIsThePublicationsOwnRow ==
  (sp.fn = "redis" /\ sp.pc = "idle" /\ sp.runs > 0)
  => /\ \A i \in 1..Len(sp.id_list) :
          LET paper_id == sp.id_list[i][1]
              idx == paper_id2train_idx(sp.id_list, paper_id)
          IN  paper_id \notin sp.bad_id_set
              => idx <= Len(sp.emb_list) /\ sp.emb_list[idx] = paper_id
     /\ sp.bad_id_set # DOMAIN sp.pub_note_id_to_cache_key => sp.raises = "ok"
====
